---------------------------- MODULE Spec2Model ----------------------------
(***************************************************************************)
(* Model of the captioner service (src/app/main.py): the line builder, the *)
(* SRT codec, the cue resolver, the relative-path validation and the       *)
(* generate-captions / captions-lookup / project-file request handlers.    *)
(*                                                                         *)
(* Text is modelled character by character: a Python str is a sequence of  *)
(* one-character strings.  Times handed to the encoder are floats in the   *)
(* source; here a time is an integer count of half milliseconds, so that   *)
(* int(round(seconds * 1000)) has something to round.                       *)
(***************************************************************************)
EXTENDS Integers, Sequences, FiniteSets, TLC

VARIABLES
    \* line builder
    bl_pc, bl_words, bl_max_chars, bl_lines,
    \* SRT codec and active-cue lookup
    srt_pc, srt_origin, srt_lines, srt_text, cues, t_ms, active,
    \* relative-path validation
    pth_pc, rel_path, pth_result,
    \* SRT URL derivation
    url_pc, media_url, map_mode, url_result,
    \* the project directory and the request being served
    proj_exists, files, sync_configured, n_edits,
    pc, req, n_requests, response, fs_ops, files0,
    video_bytes, g_sha, g_words, g_lines, artifacts, found, extracted, transcribed, sync_outcome,
    \* artifact naming
    nm_inputs, nm_calls,
    \* SRT fetch and the cue endpoints
    ft_pc, ft_req, upstream, ft_text, ft_response,
    \* the Resolve bridge (src/main.py): export-srt and its import jobs
    IMPORT_QUEUE, br_files, br_tasks, br_requests, br_response, resolve_env,
    \* two generate-captions requests served at the same time
    cw_pc, cw_max_chars, cw_words, cw_files, cw_status,
    \* load_model and its cache
    model_cache, lm_calls, constructed, lm_running,
    \* captions lookup against generate-captions and edits of the video
    lk_pc, lk_kind, lk_files, lk_bytes, lk_sha, lk_response, lk_ops,
    lk_completed, lk_prev, lk_dirty, lk_regenerated

bl_vars == <<bl_pc, bl_words, bl_max_chars, bl_lines>>

srt_vars == <<srt_pc, srt_origin, srt_lines, srt_text, cues, t_ms, active>>

pth_vars == <<pth_pc, rel_path, pth_result>>

url_vars == <<url_pc, media_url, map_mode, url_result>>

gen_vars ==
    <<proj_exists, files, sync_configured, n_edits,
      pc, req, n_requests, response, fs_ops, files0,
      video_bytes, g_sha, g_words, g_lines, artifacts, found, extracted, transcribed, sync_outcome>>

nm_vars == <<nm_inputs, nm_calls>>

ft_vars == <<ft_pc, ft_req, upstream, ft_text, ft_response>>

br_vars == <<IMPORT_QUEUE, br_files, br_tasks, br_requests, br_response, resolve_env>>

cw_vars == <<cw_pc, cw_max_chars, cw_words, cw_files, cw_status>>

lm_vars == <<model_cache, lm_calls, constructed, lm_running>>

lk_vars == <<lk_pc, lk_kind, lk_files, lk_bytes, lk_sha, lk_response, lk_ops,
    lk_completed, lk_prev, lk_dirty, lk_regenerated>>

\* the components added to the five above
ext_vars == <<nm_vars, ft_vars, br_vars, cw_vars, lm_vars, lk_vars>>

vars == <<bl_vars, srt_vars, pth_vars, url_vars, gen_vars, ext_vars>>

(***************************************************************************)
(* Bounds of the model.                                                    *)
(***************************************************************************)
MaxWords == 3
MaxCharsBound == 4
MaxLines == 2
MaxBlocks == 3
MaxPathTokens == 4
MaxDirs == 3
MaxRequests == 2
MaxEdits == 1
MaxCalls == 3
MaxExports == 2
MaxLoads == 3
MaxOps == 4

(***************************************************************************)
(* Strings.                                                                *)
(***************************************************************************)
\* str.strip() with no argument strips whitespace.
Whitespace == {" ", "\t", "\n", "\r"}

\* Scans are written with bounded quantifiers, not with one recursive call per
\* character, so that the evaluation depth does not grow with the text.

\* the first position from i on that holds a character outside cs (Len(s) + 1
\* when there is none)
FirstNotIn(s, i, cs) ==
    CHOOSE j \in i..(Len(s) + 1) :
        /\ j = Len(s) + 1 \/ s[j] \notin cs
        /\ \A k \in i..(j - 1) : s[k] \in cs

\* the first position from i on that holds character c (Len(s) + 1 when none)
FirstAt(s, i, c) ==
    CHOOSE j \in i..(Len(s) + 1) :
        /\ j = Len(s) + 1 \/ s[j] = c
        /\ \A k \in i..(j - 1) : s[k] # c

\* the last position that holds a character outside cs (0 when there is none)
LastNotIn(s, cs) ==
    CHOOSE j \in 0..Len(s) :
        /\ j = 0 \/ s[j] \notin cs
        /\ \A k \in (j + 1)..Len(s) : s[k] \in cs

LStripChars(s, cs) == SubSeq(s, FirstNotIn(s, 1, cs), Len(s))

RStripChars(s, cs) == SubSeq(s, 1, LastNotIn(s, cs))

\* the concatenation of pieces[lo..hi]
RECURSIVE ConcatRange(_, _, _)
ConcatRange(pieces, lo, hi) ==
    IF lo > hi THEN <<>>
    ELSE IF lo = hi THEN pieces[lo]
    ELSE ConcatRange(pieces, lo, (lo + hi) \div 2)
             \o ConcatRange(pieces, ((lo + hi) \div 2) + 1, hi)

Concat(pieces) == ConcatRange(pieces, 1, Len(pieces))

StripChars(s, cs) == RStripChars(LStripChars(s, cs), cs)

Strip(s) == StripChars(s, Whitespace)

\* sep.join(parts)
RECURSIVE Join(_, _)
Join(sep, parts) ==
    IF parts = <<>> THEN <<>>
    ELSE IF Len(parts) = 1 THEN parts[1]
    ELSE parts[1] \o sep \o Join(sep, Tail(parts))

(***************************************************************************)
(* build_lines                                                             *)
(***************************************************************************)
TextsOf(current) == [i \in 1..Len(current) |-> current[i].text]

\* mutant: a line ends where its first word ends
MakeLineFirstWordEnd(current) ==
    [text  |-> Strip(Join(<<" ">>, TextsOf(current))),
     start |-> current[1].start,
     end   |-> current[1].end]

\* the line emitted for the accumulator `current`
MakeLine(current) ==
    [text  |-> Strip(Join(<<" ">>, TextsOf(current))),
     start |-> current[1].start,
     end   |-> current[Len(current)].end]

\* mutant: the candidate text leaves out the incoming word
TentativeWithoutWord(current, text) ==
    Strip(Join(<<" ">>, TextsOf(current)))

\* the candidate joined text: accumulator words plus the incoming word
Tentative(current, text) ==
    Strip(Join(<<" ">>, TextsOf(current) \o <<text>>))

RECURSIVE BuildLoop(_, _, _, _, _)
BuildLoop(words, max_chars, i, lines, current) ==
    IF i > Len(words)
    THEN IF current # <<>> THEN Append(lines, MakeLine(current)) ELSE lines
    ELSE LET word == words[i]
             text == Strip(word.text)
         IN  IF text = <<>>
             THEN BuildLoop(words, max_chars, i + 1, lines, current)
             ELSE IF current # <<>> /\ Len(Tentative(current, text)) > max_chars
                  THEN BuildLoop(words, max_chars, i + 1,
                                 Append(lines, MakeLine(current)),
                                 <<[text |-> text, start |-> word.start, end |-> word.end]>>)
                  ELSE BuildLoop(words, max_chars, i + 1, lines,
                                 Append(current,
                                        [text |-> text, start |-> word.start, end |-> word.end]))

build_lines(words, max_chars) == BuildLoop(words, max_chars, 1, <<>>, <<>>)

\* The words the line builder is tried on (times in half milliseconds).
WordPalette ==
    { [text |-> <<"a">>,                start |-> 0,    end |-> 1000],
      [text |-> <<"b", "b">>,           start |-> 1000, end |-> 2000],
      [text |-> <<" ", "c", " ">>,      start |-> 2000, end |-> 3001],
      [text |-> <<>>,                   start |-> 3000, end |-> 4000],
      [text |-> <<" ">>,                start |-> 4000, end |-> 5000],
      [text |-> <<"d", "d", "d", "d", "d", "d">>, start |-> 5000, end |-> 6000],
      [text |-> <<"e", " ", "f">>,      start |-> 7000, end |-> 6500] }

WordLists == UNION { [1..n -> WordPalette] : n \in 0..MaxWords }

BlIdle ==
    /\ bl_pc = "idle"
    /\ bl_words = <<>>
    /\ bl_max_chars = 1
    /\ bl_lines = <<>>

BlInit ==
    /\ bl_pc = "input"
    /\ bl_words \in WordLists
    /\ bl_max_chars \in 1..MaxCharsBound
    /\ bl_lines = <<>>

BuildLines ==
    /\ bl_pc = "input"
    /\ bl_lines' = build_lines(bl_words, bl_max_chars)
    /\ bl_pc' = "built"
    /\ UNCHANGED <<bl_words, bl_max_chars>>

(***************************************************************************)
(* SRT codec: format_timestamp, write_srt, parse_srt                       *)
(***************************************************************************)
Digit == {"0", "1", "2", "3", "4", "5", "6", "7", "8", "9"}

DigitChar(d) == <<"0", "1", "2", "3", "4", "5", "6", "7", "8", "9">>[d + 1]

DigitValue(c) == CHOOSE d \in 0..9 : DigitChar(d) = c

RECURSIVE Digits(_)
Digits(n) == IF n < 10 THEN <<DigitChar(n)>>
             ELSE Digits(n \div 10) \o <<DigitChar(n % 10)>>

RECURSIVE ZeroPad(_, _)
ZeroPad(ds, width) == IF Len(ds) >= width THEN ds ELSE ZeroPad(<<"0">> \o ds, width)

\* f"{n:0w}": zero padded to at least w characters, the sign counted in the width
FormatInt(n, width) ==
    IF n < 0 THEN <<"-">> \o ZeroPad(Digits(-n), width - 1)
    ELSE ZeroPad(Digits(n), width)

\* int(round(seconds * 1000)) for a time of h half milliseconds: Python's round
\* takes a tie to the even neighbour
RoundMs(h) ==
    IF h % 2 = 0 THEN h \div 2
    ELSE IF (h \div 2) % 2 = 0 THEN h \div 2 ELSE (h \div 2) + 1

format_timestamp(seconds) ==
    LET total_ms == RoundMs(seconds)
        hrs  == total_ms \div 3600000
        rem1 == total_ms % 3600000
        mins == rem1 \div 60000
        rem2 == rem1 % 60000
        secs == rem2 \div 1000
        ms   == rem2 % 1000
    IN  FormatInt(hrs, 2) \o <<":">> \o FormatInt(mins, 2) \o <<":">>
            \o FormatInt(secs, 2) \o <<",">> \o FormatInt(ms, 3)

Arrow == <<" ", "-", "-", ">", " ">>

\* one numbered block of write_srt
SrtEntry(idx, line) ==
    Digits(idx) \o <<"\n">>
        \o format_timestamp(line.start) \o Arrow \o format_timestamp(line.end) \o <<"\n">>
        \o Strip(line.text) \o <<"\n", "\n">>

RECURSIVE WriteFrom(_, _)
WriteFrom(lines, idx) ==
    IF idx > Len(lines) THEN <<>>
    ELSE SrtEntry(idx, lines[idx]) \o WriteFrom(lines, idx + 1)

\* the text write_srt writes to the file
write_srt(lines) == WriteFrom(lines, 1)

\* the character U+FEFF
BOM == "BOM"

IsPrefixAt(s, i, pat) ==
    /\ i + Len(pat) - 1 <= Len(s)
    /\ \A k \in 1..Len(pat) : s[i + k - 1] = pat[k]

\* where the occurrences replaced by a left-to-right, non-overlapping scan for
\* `old` start: an occurrence counts unless an earlier counted one overlaps it
MatchStarts(s, old) ==
    LET hit[i \in 1..Len(s)] ==
            /\ IsPrefixAt(s, i, old)
            /\ \A j \in 1..(i - 1) : j + Len(old) > i => ~hit[j]
    IN  {i \in 1..Len(s) : hit[i]}

\* s with the stretches of n characters that start at `starts` replaced by new
ReplaceAt(s, starts, n, new) ==
    LET piece(i) == IF i \in starts THEN new
                    ELSE IF \E j \in starts : j < i /\ i < j + n THEN <<>>
                    ELSE <<s[i]>>
    IN  Concat([i \in 1..Len(s) |-> piece(i)])

\* str.replace(old, new): every non-overlapping occurrence, left to right
Replace(s, old, new) == ReplaceAt(s, MatchStarts(s, old), Len(old), new)

Uppers == <<"A", "B", "C", "D", "E", "F", "G", "H", "I", "J", "K", "L", "M",
            "N", "O", "P", "Q", "R", "S", "T", "U", "V", "W", "X", "Y", "Z">>

Lowers == <<"a", "b", "c", "d", "e", "f", "g", "h", "i", "j", "k", "l", "m",
            "n", "o", "p", "q", "r", "s", "t", "u", "v", "w", "x", "y", "z">>

LowerChar(c) ==
    IF \E k \in 1..26 : Uppers[k] = c
    THEN Lowers[CHOOSE k \in 1..26 : Uppers[k] = c]
    ELSE c

\* str.lower()
Lower(s) == [i \in 1..Len(s) |-> LowerChar(s[i])]

\* re.sub(pattern, new, s, flags=re.IGNORECASE) for a literal lower-case
\* pattern: every non-overlapping occurrence, whatever its case
SubIgnoreCase(s, pattern, new) ==
    ReplaceAt(s, MatchStarts(Lower(s), pattern), Len(pattern), new)

\* the first position from i on where a run of two or more newlines starts
\* (Len(s) + 1 when there is none)
FirstBreak(s, i) ==
    CHOOSE j \in i..(Len(s) + 1) :
        /\ j = Len(s) + 1 \/ IsPrefixAt(s, j, <<"\n", "\n">>)
        /\ \A k \in i..(j - 1) : ~IsPrefixAt(s, k, <<"\n", "\n">>)

\* re.split(r"\n{2,}", text): a separator is a whole run of newlines
RECURSIVE SplitBlocksFrom(_, _)
SplitBlocksFrom(s, i) ==
    LET j == FirstBreak(s, i)
    IN  IF j > Len(s) THEN <<SubSeq(s, i, Len(s))>>
        ELSE <<SubSeq(s, i, j - 1)>> \o SplitBlocksFrom(s, FirstNotIn(s, j, {"\n"}))

SplitBlocks(s) == SplitBlocksFrom(s, 1)

\* str.split("\n")
RECURSIVE SplitLinesFrom(_, _)
SplitLinesFrom(s, i) ==
    LET j == FirstAt(s, i, "\n")
    IN  IF j > Len(s) THEN <<SubSeq(s, i, Len(s))>>
        ELSE <<SubSeq(s, i, j - 1)>> \o SplitLinesFrom(s, j + 1)

SplitLines(s) == SplitLinesFrom(s, 1)

\* mutant: no line is taken for an index line
IndexNotDetected(s) == FALSE

\* str.isdigit()
IsDigitStr(s) == s # <<>> /\ \A i \in 1..Len(s) : s[i] \in Digit

\* \d{2}:\d{2}:\d{2},\d{3} at position i
IsTimestampAt(s, i) ==
    /\ i + 11 <= Len(s)
    /\ \A k \in {0, 1, 3, 4, 6, 7, 9, 10, 11} : s[i + k] \in Digit
    /\ s[i + 2] = ":"
    /\ s[i + 5] = ":"
    /\ s[i + 8] = ","

\* \s* from position i: the first position that holds no whitespace
SkipSpace(s, i) == FirstNotIn(s, i, Whitespace)

\* ts_pattern.match(timing_line): the two groups, or <<>> when there is no match
MatchTiming(timing_line) ==
    IF ~IsTimestampAt(timing_line, 1) THEN <<>>
    ELSE LET a == SkipSpace(timing_line, 13)
         IN  IF ~IsPrefixAt(timing_line, a, <<"-", "-", ">">>) THEN <<>>
             ELSE LET b == SkipSpace(timing_line, a + 3)
                  IN  IF ~IsTimestampAt(timing_line, b) THEN <<>>
                      ELSE <<SubSeq(timing_line, 1, 12), SubSeq(timing_line, b, b + 11)>>

RECURSIVE ToInt(_)
ToInt(ds) == IF ds = <<>> THEN 0
             ELSE ToInt(SubSeq(ds, 1, Len(ds) - 1)) * 10 + DigitValue(ds[Len(ds)])

to_ms(timestamp) ==
    LET hh == ToInt(SubSeq(timestamp, 1, 2))
        mm == ToInt(SubSeq(timestamp, 4, 5))
        ss == ToInt(SubSeq(timestamp, 7, 8))
        ms == ToInt(SubSeq(timestamp, 10, 12))
    IN  (((hh * 60 + mm) * 60) + ss) * 1000 + ms

RECURSIVE CaptionLines(_, _)
CaptionLines(lines, k) ==
    IF k > Len(lines) THEN <<>>
    ELSE IF Strip(lines[k]) # <<>>
         THEN <<RStripChars(lines[k], Whitespace)>> \o CaptionLines(lines, k + 1)
         ELSE CaptionLines(lines, k + 1)

\* the cues of one block: one cue, or none when the timing line does not match
ParseBlock(block) ==
    LET lines == SplitLines(block)
        idx_line == Strip(lines[1])
        has_index == IsDigitStr(idx_line)
        timing_line == IF has_index /\ Len(lines) > 1 THEN Strip(lines[2])
                       ELSE Strip(lines[1])
        match == MatchTiming(timing_line)
        text_start == IF has_index THEN 3 ELSE 2
    IN  IF match = <<>> THEN <<>>
        ELSE << [startMs |-> to_ms(match[1]),
                 endMs   |-> to_ms(match[2]),
                 text    |-> Join(<<"\n">>, CaptionLines(lines, text_start))] >>

\* mutant: a lone carriage return is not taken for a line ending
NormalizeSrtCrlfOnly(srt_text_in) ==
    Strip(Replace(LStripChars(srt_text_in, {BOM}), <<"\r", "\n">>, <<"\n">>))

\* the text after BOM stripping, newline normalisation and trimming
NormalizeSrt(srt_text_in) ==
    Strip(Replace(Replace(LStripChars(srt_text_in, {BOM}),
                          <<"\r", "\n">>, <<"\n">>),
                  <<"\r">>, <<"\n">>))

RECURSIVE KeepBlocks(_)
KeepBlocks(parts) ==
    IF parts = <<>> THEN <<>>
    ELSE IF Strip(Head(parts)) # <<>>
         THEN <<StripChars(Head(parts), {"\n"})>> \o KeepBlocks(Tail(parts))
         ELSE KeepBlocks(Tail(parts))

RECURSIVE ParseBlocks(_)
ParseBlocks(blocks) ==
    IF blocks = <<>> THEN <<>>
    ELSE ParseBlock(Head(blocks)) \o ParseBlocks(Tail(blocks))

\* the cue list before the final sort, in block order
UnsortedCues(srt_text_in) ==
    IF srt_text_in = <<>> \/ NormalizeSrt(srt_text_in) = <<>> THEN <<>>
    ELSE ParseBlocks(KeepBlocks(SplitBlocks(NormalizeSrt(srt_text_in))))

\* mutant: a new cue goes in front of the cues of equal startMs
InsertBeforeEqual(sorted, cue) ==
    LET n == Cardinality({k \in 1..Len(sorted) : sorted[k].startMs < cue.startMs})
    IN  SubSeq(sorted, 1, n) \o <<cue>> \o SubSeq(sorted, n + 1, Len(sorted))

\* list.sort(key=startMs) is stable: a cue goes behind the cues of equal startMs
InsertCue(sorted, cue) ==
    LET n == Cardinality({k \in 1..Len(sorted) : sorted[k].startMs <= cue.startMs})
    IN  SubSeq(sorted, 1, n) \o <<cue>> \o SubSeq(sorted, n + 1, Len(sorted))

RECURSIVE SortCues(_, _)
SortCues(cs, k) ==
    IF k = 0 THEN <<>> ELSE InsertCue(SortCues(cs, k - 1), cs[k])

parse_srt(srt_text_in) ==
    LET unsorted == UnsortedCues(srt_text_in)
    IN  SortCues(unsorted, Len(unsorted))

(***************************************************************************)
(* /api/captions/active: the scan over the decoded cues                    *)
(***************************************************************************)
\* JSON null in the "none" answer; a cue's milliseconds are never negative
Null == -1

NoneResult == [text |-> <<>>, startMs |-> Null, endMs |-> Null]

\* mutant: the end bound is exclusive
CoversEndExclusive(cue, t) == cue.startMs <= t /\ t < cue.endMs

\* int(cue["startMs"]) <= t_ms <= int(cue["endMs"])
Covers(cue, t) == cue.startMs <= t /\ t <= cue.endMs

RECURSIVE ScanCues(_, _, _)
ScanCues(cs, k, t) ==
    IF k > Len(cs) THEN NoneResult
    ELSE IF Covers(cs[k], t) THEN cs[k]
    ELSE ScanCues(cs, k + 1, t)

active_caption(cs, t) == ScanCues(cs, 1, t)

(***************************************************************************)
(* The codec as a state machine: lines are encoded, a text is decoded, a   *)
(* timestamp is looked up in the decoded cues.                             *)
(***************************************************************************)
\* Lines given to write_srt (times in half milliseconds; 720000000 is 100 h).
LineTimes ==
    { <<0, 2000>>, <<2000, 4000>>, <<1, 3>>,
      <<719999998, 720000000>>, <<720000000, 720002000>> }

LineTexts ==
    { <<"a">>, <<"b", " ", "c">>, <<" ", "d">>, <<>> }

LinePalette ==
    { [text |-> x, start |-> p[1], end |-> p[2]] : x \in LineTexts, p \in LineTimes }

LineLists == UNION { [1..n -> LinePalette] : n \in 0..MaxLines }

\* HH:MM:SS,mmm of a whole number of milliseconds, for writing documents down
Stamp(ms) == format_timestamp(2 * ms)

\* Blocks a document handed to parse_srt is made of.
BlockPalette ==
    { <<"1", "\n">> \o Stamp(0) \o Arrow \o Stamp(1000) \o <<"\n", "H">>,
      <<"2", "\n">> \o Stamp(2000) \o Arrow \o Stamp(3000) \o <<"\n", "W">>,
      Stamp(2000) \o <<"-", "-", ">">> \o Stamp(2500) \o <<"\n", "X">>,
      <<"3", "\n">> \o Stamp(500) \o Arrow \o Stamp(2000) \o <<"\n", "Y", " ", "\n", "Z">>,
      <<"9", "\n">> \o Stamp(5000) \o Arrow \o Stamp(4000) \o <<"\n", "R">>,
      <<"g">>,
      <<"7">> }

BlockLists == UNION { [1..n -> BlockPalette] : n \in 0..MaxBlocks }

DocStyles == {"plain", "crlf", "loose"}

\* a document: the blocks, in one of three styles of separator and line ending
Doc(blocks, style) ==
    CASE style = "plain" -> Join(<<"\n", "\n">>, blocks)
      [] style = "crlf"  -> <<BOM>> \o Replace(Join(<<"\n", "\n">>, blocks) \o <<"\n">>,
                                              <<"\n">>, <<"\r", "\n">>)
      [] style = "loose" -> <<" ", "\n">> \o Join(<<"\n", "\n", "\n">>, blocks) \o <<"\n", " ">>

LookupTimes == {0, 500, 1000, 1500, 2000, 2500, 3000, 4500}

SrtIdle ==
    /\ srt_pc = "idle"
    /\ srt_origin = "none"
    /\ srt_lines = <<>>
    /\ srt_text = <<>>
    /\ cues = <<>>
    /\ t_ms = 0
    /\ active = NoneResult

SrtInit ==
    /\ cues = <<>>
    /\ t_ms = 0
    /\ active = NoneResult
    /\ \/ /\ srt_origin = "lines"
          /\ srt_pc = "lines"
          /\ srt_lines \in LineLists
          /\ srt_text = <<>>
       \/ /\ srt_origin = "text"
          /\ srt_pc = "text"
          /\ srt_lines = <<>>
          /\ \E blocks \in BlockLists, style \in DocStyles : srt_text = Doc(blocks, style)

WriteSrt ==
    /\ srt_pc = "lines"
    /\ srt_text' = write_srt(srt_lines)
    /\ srt_pc' = "text"
    /\ UNCHANGED <<srt_origin, srt_lines, cues, t_ms, active>>

ParseSrt ==
    /\ srt_pc = "text"
    /\ cues' = parse_srt(srt_text)
    /\ srt_pc' = "cues"
    /\ UNCHANGED <<srt_origin, srt_lines, srt_text, t_ms, active>>

GetActiveCaption ==
    /\ srt_pc = "cues"
    /\ \E t \in LookupTimes :
        /\ t_ms' = t
        /\ active' = active_caption(cues, t)
    /\ srt_pc' = "active"
    /\ UNCHANGED <<srt_origin, srt_lines, srt_text, cues>>

(***************************************************************************)
(* pathlib.Path (POSIX flavour) and ensure_relative_path                   *)
(***************************************************************************)
\* str.split(sep) for a one-character separator
RECURSIVE SplitOnFrom(_, _, _)
SplitOnFrom(s, i, sep) ==
    LET j == FirstAt(s, i, sep)
    IN  IF j > Len(s) THEN <<SubSeq(s, i, Len(s))>>
        ELSE <<SubSeq(s, i, j - 1)>> \o SplitOnFrom(s, j + 1, sep)

SplitOn(s, sep) == SplitOnFrom(s, 1, sep)

\* the root of a path: "/" for a leading slash, "//" for exactly two
PathRoot(s) ==
    LET n == FirstNotIn(s, 1, {"/"}) - 1
    IN  IF n = 0 THEN <<>> ELSE IF n = 2 THEN <<"/", "/">> ELSE <<"/">>

\* the components pathlib keeps: empty and "." components are dropped
PathNames(s) ==
    LET Kept(x) == x # <<>> /\ x # <<".">> IN SelectSeq(SplitOn(s, "/"), Kept)

\* Path(s).parts
PathParts(s) ==
    IF PathRoot(s) = <<>> THEN PathNames(s) ELSE <<PathRoot(s)>> \o PathNames(s)

\* Path(s).is_absolute()
IsAbsolute(s) == PathRoot(s) # <<>>

\* Path(s).name
PathName(s) == IF PathNames(s) = <<>> THEN <<>> ELSE PathNames(s)[Len(PathNames(s))]

\* the position of the last "." of a name (0 when there is none)
LastDot(name) ==
    CHOOSE j \in 0..Len(name) :
        /\ j = 0 \/ name[j] = "."
        /\ \A k \in (j + 1)..Len(name) : name[k] # "."

\* Path(s).suffix: from the last dot of the name, unless the dot leads or ends it
PathSuffix(s) ==
    LET name == PathName(s)
        i == LastDot(name)
    IN  IF 1 < i /\ i < Len(name) THEN SubSeq(name, i, Len(name)) ELSE <<>>

\* Path(s).stem
PathStem(s) ==
    LET name == PathName(s)
    IN  SubSeq(name, 1, Len(name) - Len(PathSuffix(s)))

\* str(Path(s))
PathStr(s) ==
    IF PathParts(s) = <<>> THEN <<".">>
    ELSE PathRoot(s) \o Join(<<"/">>, PathNames(s))

\* an absent rel_path (None)
NoPath == <<"(absent)">>

HTTP_200_OK == 200
HTTP_400_BAD_REQUEST == 400
HTTP_404_NOT_FOUND == 404

\* mutant: the traversal check is left out
PartsNotChecked(parts) == FALSE

\* any(part in {"..", ""} for part in candidate.parts)
HasBadPart(parts) == \E k \in 1..Len(parts) : parts[k] \in {<<".", ".">>, <<>>}

\* ensure_relative_path: the status it ends with (400 for its HTTPException) and
\* the Path it returns
ensure_relative_path(p) ==
    IF p = NoPath \/ Strip(p) = <<>>
    THEN [status |-> HTTP_400_BAD_REQUEST, detail |-> "Path is required", path |-> <<>>]
    ELSE IF IsAbsolute(p)
    THEN [status |-> HTTP_400_BAD_REQUEST, detail |-> "Absolute paths are not allowed",
          path |-> <<>>]
    ELSE IF HasBadPart(PathParts(p))
    THEN [status |-> HTTP_400_BAD_REQUEST, detail |-> "Path traversal is not allowed",
          path |-> <<>>]
    ELSE [status |-> HTTP_200_OK, detail |-> "", path |-> PathStr(p)]

\* The pieces a relative-path input is put together from.
PathTokens == { <<"a">>, <<"b", ".", "m", "p", "4">>, <<".">>, <<".", ".">>, <<"/">>, <<" ">> }

PathInputs ==
    {NoPath} \cup { Concat(ts) : ts \in UNION { [1..n -> PathTokens] : n \in 0..MaxPathTokens } }

PthIdle ==
    /\ pth_pc = "idle"
    /\ rel_path = <<>>
    /\ pth_result = [status |-> 0, detail |-> "", path |-> <<>>]

PthInit ==
    /\ pth_pc = "input"
    /\ rel_path \in PathInputs
    /\ pth_result = [status |-> 0, detail |-> "", path |-> <<>>]

EnsureRelativePath ==
    /\ pth_pc = "input"
    /\ pth_result' = ensure_relative_path(rel_path)
    /\ pth_pc' = "done"
    /\ UNCHANGED rel_path

(***************************************************************************)
(* derive_srt_url                                                          *)
(***************************************************************************)
SUPPORTED_VIDEO_SUFFIXES ==
    { <<".", "m", "p", "4">>, <<".", "m", "o", "v">>, <<".", "m", "k", "v">>,
      <<".", "m", "4", "v">>, <<".", "a", "v", "i">> }

\* the first position from i on that holds a character of cs (Len(s) + 1 when none)
FirstIn(s, i, cs) ==
    CHOOSE j \in i..(Len(s) + 1) :
        /\ j = Len(s) + 1 \/ s[j] \in cs
        /\ \A k \in i..(j - 1) : s[k] \notin cs

\* urlparse of scheme://netloc/path?query#fragment
urlparse(url) ==
    LET colon == FirstAt(url, 1, ":")
        has_scheme == IsPrefixAt(url, colon, <<":", "/", "/">>)
        scheme == IF has_scheme THEN SubSeq(url, 1, colon - 1) ELSE <<>>
        loc_from == IF has_scheme THEN colon + 3 ELSE 1
        loc_to == IF has_scheme THEN FirstIn(url, loc_from, {"/", "?", "#"}) ELSE 1
        path_to == FirstIn(url, loc_to, {"?", "#"})
        frag_at == FirstAt(url, loc_to, "#")
    IN  [scheme   |-> scheme,
         netloc   |-> SubSeq(url, loc_from, loc_to - 1),
         path     |-> SubSeq(url, loc_to, path_to - 1),
         query    |-> IF path_to <= Len(url) /\ url[path_to] = "?"
                      THEN SubSeq(url, path_to + 1, frag_at - 1) ELSE <<>>,
         fragment |-> SubSeq(url, frag_at + 1, Len(url))]

urlunparse(parts) ==
    (IF parts.scheme # <<>> THEN parts.scheme \o <<":", "/", "/">> \o parts.netloc
     ELSE parts.netloc)
        \o parts.path
        \o (IF parts.query # <<>> THEN <<"?">> \o parts.query ELSE <<>>)
        \o (IF parts.fragment # <<>> THEN <<"#">> \o parts.fragment ELSE <<>>)

SrtSuffix == <<".", "s", "r", "t">>

\* re.sub(rf"{re.escape(suffix)}$", ".srt", path, flags=re.IGNORECASE)
SubSuffix(path, suffix) ==
    IF suffix # <<>> /\ Len(path) >= Len(suffix)
           /\ Lower(SubSeq(path, Len(path) - Len(suffix) + 1, Len(path))) = suffix
    THEN SubSeq(path, 1, Len(path) - Len(suffix)) \o SrtSuffix
    ELSE path

IngestOriginals ==
    <<"/", "i", "n", "g", "e", "s", "t", "/", "o", "r", "i", "g", "i", "n", "a", "l", "s", "/">>

Ingest == <<"/", "i", "n", "g", "e", "s", "t", "/">>

Captions == <<"/", "c", "a", "p", "t", "i", "o", "n", "s", "/">>

\* the directory rewrite of the captions_dir mode
CaptionsDirPath(path) ==
    SubIgnoreCase(SubIgnoreCase(path, IngestOriginals, Captions), Ingest, Captions)

derive_srt_url(media_url_in, mode) ==
    LET parsed == urlparse(media_url_in)
        clean == [parsed EXCEPT !.query = <<>>, !.fragment = <<>>]
        path == clean.path
        suffix == Lower(PathSuffix(path))
    IN  IF suffix \notin SUPPORTED_VIDEO_SUFFIXES
        THEN [status |-> HTTP_400_BAD_REQUEST, detail |-> "Unsupported media extension",
              url |-> <<>>]
        ELSE IF mode = "side_by_side"
        THEN [status |-> HTTP_200_OK, detail |-> "",
              url |-> urlunparse([clean EXCEPT !.path = SubSuffix(path, suffix)])]
        ELSE IF mode = "captions_dir"
        THEN [status |-> HTTP_200_OK, detail |-> "",
              url |-> urlunparse([clean EXCEPT
                                     !.path = SubSuffix(CaptionsDirPath(path), suffix)])]
        ELSE [status |-> HTTP_400_BAD_REQUEST, detail |-> "Unknown SRT map mode",
              url |-> <<>>]

\* The pieces a media URL is put together from.
UrlDirs ==
    { <<"i", "n", "g", "e", "s", "t">>,
      <<"o", "r", "i", "g", "i", "n", "a", "l", "s">>,
      <<"I", "n", "g", "e", "s", "t">>,
      <<"P">> }

UrlFiles ==
    { <<"d", ".", "m", "p", "4">>, <<"d", ".", "M", "O", "V">>,
      <<"d", ".", "t", "x", "t">>, <<"d", ".", "m", "p", "4", "/">> }

UrlTails == { <<>>, <<"?", "x", "=", "1">>, <<"#", "f">> }

UrlOrigin == <<"h", "t", "t", "p", ":", "/", "/", "h">>

UrlModes == {"captions_dir", "side_by_side", "mirror"}

MediaUrl(dirs, file, tail) ==
    UrlOrigin \o Concat([i \in 1..Len(dirs) |-> <<"/">> \o dirs[i]]) \o <<"/">> \o file \o tail

UrlIdle ==
    /\ url_pc = "idle"
    /\ media_url = <<>>
    /\ map_mode = "captions_dir"
    /\ url_result = [status |-> 0, detail |-> "", url |-> <<>>]

UrlInit ==
    /\ url_pc = "input"
    /\ \E dirs \in UNION { [1..n -> UrlDirs] : n \in 0..MaxDirs },
          file \in UrlFiles, tail \in UrlTails :
            media_url = MediaUrl(dirs, file, tail)
    /\ map_mode \in UrlModes
    /\ url_result = [status |-> 0, detail |-> "", url |-> <<>>]

DeriveSrtUrl ==
    /\ url_pc = "input"
    /\ url_result' = derive_srt_url(media_url, map_mode)
    /\ url_pc' = "done"
    /\ UNCHANGED <<media_url, map_mode>>

(***************************************************************************)
(* The request handlers over a project directory: generate-captions,       *)
(* captions lookup and project file.  One request is served at a time; a   *)
(* handler is a sequence of steps, one per call that validates, touches    *)
(* the filesystem or calls a collaborator.                                 *)
(***************************************************************************)
\* compute_sha256 of the three video contents of the model.  A digest stands
\* for the 64 hex characters of SHA-256; the first two share their first ten.
Bytes == {"b1", "b2", "b3"}

\* mutant: the hash of the first content is kept, not computed from the bytes
Sha256Cached(bytes) ==
    <<"0", "1", "2", "3", "4", "5", "6", "7", "8", "9", "a", "b">>

compute_sha256(bytes) ==
    CASE bytes = "b1" -> <<"0", "1", "2", "3", "4", "5", "6", "7", "8", "9", "a", "b">>
      [] bytes = "b2" -> <<"0", "1", "2", "3", "4", "5", "6", "7", "8", "9", "c", "d">>
      [] bytes = "b3" -> <<"f", "0", "0", "d", "f", "0", "0", "d", "f", "0", "e", "f">>

CaptionsDir == <<"c", "a", "p", "t", "i", "o", "n", "s", "/">>

\* mutant: the base name keeps the video's extension
BaseNameWithSuffix(video_rel_path, sha) ==
    PathName(video_rel_path) \o <<"_", "_">> \o SubSeq(sha, 1, 10)

\* mutant: the base name carries the whole hash
BaseNameFullSha(video_rel_path, sha) ==
    PathStem(video_rel_path) \o <<"_", "_">> \o sha

\* f"{stem}__{sha[:10]}"
BaseName(video_rel_path, sha) ==
    PathStem(video_rel_path) \o <<"_", "_">> \o SubSeq(sha, 1, 10)

NoArtifacts ==
    [sha256 |-> <<>>, video_rel_path |-> <<>>, words_rel_path |-> <<>>,
     lines_rel_path |-> <<>>, srt_rel_path |-> <<>>]

\* resolve_caption_paths, for a video_rel_path that ensure_relative_path accepts
resolve_caption_paths(video_rel_path, sha) ==
    [sha256         |-> sha,
     video_rel_path |-> PathStr(video_rel_path),
     words_rel_path |-> CaptionsDir \o BaseName(video_rel_path, sha) \o <<".", "w", "o", "r", "d", "s", ".", "j", "s", "o", "n">>,
     lines_rel_path |-> CaptionsDir \o BaseName(video_rel_path, sha) \o <<".", "l", "i", "n", "e", "s", ".", "t", "x", "t">>,
     srt_rel_path   |-> CaptionsDir \o BaseName(video_rel_path, sha) \o <<".", "s", "r", "t">>]

\* mutant: one existing file is enough
AnyExists(fs, paths) == \E q \in paths : q \in DOMAIN fs

\* words.exists() and lines.exists() and srt.exists()
AllExist(fs, paths) == \A q \in paths : q \in DOMAIN fs

\* find_caption_artifacts: the artifact set, or NoArtifacts for None
find_caption_artifacts(fs, video_rel_path, sha) ==
    LET stem == PathStem(video_rel_path)
        base_name == stem \o <<"_", "_">> \o SubSeq(sha, 1, 10)
        words_path == CaptionsDir \o base_name \o <<".", "w", "o", "r", "d", "s", ".", "j", "s", "o", "n">>
        lines_path == CaptionsDir \o base_name \o <<".", "l", "i", "n", "e", "s", ".", "t", "x", "t">>
        srt_path == CaptionsDir \o base_name \o <<".", "s", "r", "t">>
    IN  IF AllExist(fs, {words_path, lines_path, srt_path})
        THEN [sha256         |-> sha,
              video_rel_path |-> video_rel_path,
              words_rel_path |-> words_path,
              lines_rel_path |-> lines_path,
              srt_rel_path   |-> srt_path]
        ELSE NoArtifacts

ALLOWED_SERVE_ROOTS ==
    { <<"c", "a", "p", "t", "i", "o", "n", "s">>, <<"i", "n", "g", "e", "s", "t">>, <<"e", "x", "p", "o", "r", "t", "s">>, <<"r", "e", "s", "o", "l", "v", "e">>,
      <<"t", "e", "l", "e", "p", "r", "o", "m", "p", "t", "e", "r">>,
      <<"_", "m", "a", "n", "i", "f", "e", "s", "t">> }

\* ensure_allowed_relative
ensure_allowed_relative(p) ==
    LET checked == ensure_relative_path(p)
    IN  IF checked.status # HTTP_200_OK THEN checked
        ELSE IF PathParts(p) = <<>>
        THEN [status |-> HTTP_400_BAD_REQUEST, detail |-> "Empty path not allowed",
              path |-> <<>>]
        ELSE IF PathParts(p)[1] \notin ALLOWED_SERVE_ROOTS
        THEN [status |-> HTTP_400_BAD_REQUEST, detail |-> "Directory not allowed",
              path |-> <<>>]
        ELSE checked

\* the file contents written by write_words_json, write_lines_txt and write_srt
WordsFile(sha, video_rel, words) ==
    [kind |-> "words",
     meta |-> [sha256 |-> sha, video_rel_path |-> video_rel],
     words |-> words]

LinesFile(lines) ==
    [kind |-> "text",
     text |-> Concat([i \in 1..Len(lines) |-> Strip(lines[i].text) \o <<"\n">>])]

SrtFile(lines) == [kind |-> "text", text |-> write_srt(lines)]

VideoFile(bytes) == [kind |-> "video", bytes |-> bytes]

AudioFile == [kind |-> "audio"]

\* _manifest/tmp/{stem}__{sha[:10]}.wav
AudioPath(video_rel_path, sha) ==
    <<"_", "m", "a", "n", "i", "f", "e", "s", "t", "/", "t", "m", "p", "/">> \o PathStem(video_rel_path) \o <<"_", "_">> \o SubSeq(sha, 1, 10) \o <<".", "w", "a", "v">>

\* fs with `content` written at `path`
\* mutant: a file that exists is left as it is
WriteFileKeepsExisting(fs, path, content) ==
    [q \in DOMAIN fs \cup {path} |-> IF q \in DOMAIN fs THEN fs[q] ELSE content]

WriteFile(fs, path, content) ==
    [q \in DOMAIN fs \cup {path} |-> IF q = path THEN content ELSE fs[q]]

\* The inputs requests are made of.
Projects == { <<"A">>, <<".", ".">> }

VideoDemo == <<"i", "n", "g", "e", "s", "t", "/", "d", ".", "m", "p", "4">>

VideoOther == <<"i", "n", "g", "e", "s", "t", "/", "r", "/", "d", ".", "m", "o", "v">>

RelPaths ==
    { VideoDemo, VideoOther,
      <<".", ".", "/", "d", ".", "m", "p", "4">>,
      <<"/", "d", ".", "m", "p", "4">>,
      <<"i", "n", "g", "e", "s", "t", "/", "/", "d", ".", "m", "p", "4">> }

\* what the transcriber may return (texts already trimmed by transcribe_audio)
Transcripts ==
    { <<>>,
      << [text |-> <<"H", "i">>, start |-> 0, end |-> 1000],
         [text |-> <<"y", "o">>, start |-> 1000, end |-> 2000] >>,
      << [text |-> <<>>, start |-> 0, end |-> 1000] >> }

MaxCharsChoices == {2, 5}

NoRequest == [kind |-> "none", project |-> <<>>, rel_path |-> <<>>, max_chars |-> 0]

NoResponse == [status |-> 0, detail |-> "", body |-> NoArtifacts]

Failure(status, detail) == [status |-> status, detail |-> detail, body |-> NoArtifacts]

Success(body) == [status |-> HTTP_200_OK, detail |-> "", body |-> body]

\* the operations on the project root itself
RootOps == {"root.resolve", "root.exists"}

WriteOps == {"words.write", "lines.write", "srt.write"}

GenIdle ==
    /\ proj_exists = FALSE
    /\ files = <<>>
    /\ sync_configured = FALSE
    /\ pc = "idle"
    /\ req = NoRequest
    /\ video_bytes = "none"
    /\ g_sha = <<>>
    /\ g_words = <<>>
    /\ g_lines = <<>>
    /\ artifacts = NoArtifacts
    /\ found = NoArtifacts
    /\ response = NoResponse
    /\ fs_ops = {}
    /\ files0 = <<>>
    /\ n_requests = 0
    /\ n_edits = 0
    /\ extracted = "no"
    /\ transcribed = "no"
    /\ sync_outcome = "none"

\* the project directory before the first request: the videos it may hold
GenInit ==
    /\ proj_exists \in BOOLEAN
    /\ \E present \in {{VideoOther}, {VideoDemo, VideoOther}} :
        files = [q \in present |-> VideoFile("b1")]
    /\ sync_configured \in BOOLEAN
    /\ pc = "idle"
    /\ req = NoRequest
    /\ video_bytes = "none"
    /\ g_sha = <<>>
    /\ g_words = <<>>
    /\ g_lines = <<>>
    /\ artifacts = NoArtifacts
    /\ found = NoArtifacts
    /\ response = NoResponse
    /\ fs_ops = {}
    /\ files0 = files
    /\ n_requests = 0
    /\ n_edits = 0
    /\ extracted = "no"
    /\ transcribed = "no"
    /\ sync_outcome = "none"

env_vars == <<proj_exists, sync_configured, n_edits>>

locals == <<video_bytes, g_sha, g_words, g_lines, artifacts, found, extracted, transcribed, sync_outcome>>

\* a request arrives
StartRequest ==
    /\ pc \in {"idle", "done", "crashed"}
    /\ n_requests < MaxRequests
    /\ \E kind \in {"generate", "lookup", "file"}, project \in Projects,
          p \in RelPaths, max_chars \in MaxCharsChoices :
        req' = [kind |-> kind, project |-> project, rel_path |-> p,
                max_chars |-> IF kind = "generate" THEN max_chars ELSE 0]
    /\ pc' = "resolve_root"
    /\ n_requests' = n_requests + 1
    /\ video_bytes' = "none"
    /\ g_sha' = <<>>
    /\ g_words' = <<>>
    /\ g_lines' = <<>>
    /\ artifacts' = NoArtifacts
    /\ found' = NoArtifacts
    /\ extracted' = "no"
    /\ transcribed' = "no"
    /\ sync_outcome' = "none"
    /\ response' = NoResponse
    /\ fs_ops' = {}
    /\ files0' = files
    /\ UNCHANGED <<files, env_vars>>

\* the request ends with an HTTPException
Raise(status, detail) ==
    /\ pc' = "done"
    /\ response' = Failure(status, detail)

\* resolve_project_root: the project name is validated, then looked up on disk
ResolveProjectRoot ==
    /\ pc = "resolve_root"
    /\ LET safe_name == ensure_relative_path(StripChars(req.project, {"/", "\\"}))
       IN  IF safe_name.status # HTTP_200_OK
           THEN Raise(safe_name.status, safe_name.detail) /\ UNCHANGED fs_ops
           ELSE /\ fs_ops' = fs_ops \cup RootOps
                /\ IF ~proj_exists
                   THEN Raise(HTTP_404_NOT_FOUND, "Project not found")
                   ELSE /\ pc' = "validate"
                        /\ UNCHANGED response
    /\ UNCHANGED <<files, files0, req, n_requests, env_vars, locals>>

\* ensure_relative_path(video_rel_path) of generate-captions and captions lookup,
\* ensure_allowed_relative(path) of project file
ValidatePath ==
    /\ pc = "validate"
    /\ LET checked == IF req.kind = "file" THEN ensure_allowed_relative(req.rel_path)
                      ELSE ensure_relative_path(req.rel_path)
       IN  IF checked.status # HTTP_200_OK
           THEN Raise(checked.status, checked.detail)
           ELSE /\ pc' = "check_target"
                /\ UNCHANGED response
    /\ UNCHANGED <<files, files0, fs_ops, req, n_requests, env_vars, locals>>

\* (project_root / rel).resolve(), exists(), is_file()
CheckTarget ==
    /\ pc = "check_target"
    /\ fs_ops' = fs_ops \cup {"target.resolve", "target.exists"}
    /\ IF PathStr(req.rel_path) \notin DOMAIN files
       THEN Raise(HTTP_404_NOT_FOUND,
                  IF req.kind = "file" THEN "File not found" ELSE "Video not found")
       ELSE /\ pc' = IF req.kind = "file" THEN "serve_file" ELSE "hash"
            /\ UNCHANGED response
    /\ UNCHANGED <<files, files0, req, n_requests, env_vars, locals>>

\* FileResponse(target)
ServeFile ==
    /\ pc = "serve_file"
    /\ fs_ops' = fs_ops \cup {"target.read"}
    /\ pc' = "done"
    /\ response' = Success(NoArtifacts)
    /\ UNCHANGED <<files, files0, req, n_requests, env_vars, locals>>

\* sha = compute_sha256(video_path)
ComputeSha ==
    /\ pc = "hash"
    /\ fs_ops' = fs_ops \cup {"target.read"}
    /\ video_bytes' = files[PathStr(req.rel_path)].bytes
    /\ g_sha' = compute_sha256(video_bytes')
    /\ pc' = IF req.kind = "lookup" THEN "find" ELSE "extract"
    /\ UNCHANGED <<files, files0, req, n_requests, env_vars, response,
                   g_words, g_lines, artifacts, found, extracted, transcribed, sync_outcome>>

\* found = find_caption_artifacts(...); 404 when it is None
FindArtifacts ==
    /\ pc = "find"
    /\ fs_ops' = fs_ops \cup {"artifacts.exists"}
    /\ found' = find_caption_artifacts(files, PathStr(req.rel_path), g_sha)
    /\ pc' = "done"
    /\ response' = IF found' = NoArtifacts
                   THEN Failure(HTTP_404_NOT_FOUND, "Captions not found")
                   ELSE Success(found')
    /\ UNCHANGED <<files, files0, req, n_requests, env_vars,
                   video_bytes, g_sha, g_words, g_lines, artifacts, extracted, transcribed, sync_outcome>>

\* extract_audio: ffmpeg writes the scratch audio, or exits non-zero
ExtractAudio ==
    /\ pc = "extract"
    /\ fs_ops' = fs_ops \cup {"tmp.mkdir"}
    /\ \E ok \in BOOLEAN :
        IF ok
        THEN /\ files' = WriteFile(files, AudioPath(PathStr(req.rel_path), g_sha), AudioFile)
             /\ extracted' = "ok"
             /\ pc' = "transcribe"
             /\ UNCHANGED response
        ELSE /\ extracted' = "failed"
             /\ Raise(HTTP_400_BAD_REQUEST, "ffmpeg failed")
             /\ UNCHANGED files
    /\ UNCHANGED <<files0, req, n_requests, env_vars,
                   video_bytes, g_sha, g_words, g_lines, artifacts, found, transcribed, sync_outcome>>

\* mutant: the empty transcription is not rejected
AcceptsAnyWords(ws) == FALSE

\* if not words
NoWords(ws) == ws = <<>>

\* words = transcribe_audio(...); 400 when there are none
TranscribeAudio ==
    /\ pc = "transcribe"
    /\ \E ws \in Transcripts :
        /\ g_words' = ws
        /\ transcribed' = IF ws = <<>> THEN "empty" ELSE "words"
        /\ IF NoWords(ws)
           THEN Raise(HTTP_400_BAD_REQUEST, "No words produced")
           ELSE pc' = "build" /\ UNCHANGED response
    /\ UNCHANGED <<files, files0, fs_ops, req, n_requests, env_vars,
                   video_bytes, g_sha, g_lines, artifacts, found, extracted, sync_outcome>>

\* lines = build_lines(...); artifacts = resolve_caption_paths(str(video_rel), sha)
BuildArtifacts ==
    /\ pc = "build"
    /\ g_lines' = build_lines(g_words, req.max_chars)
    /\ artifacts' = resolve_caption_paths(PathStr(req.rel_path), g_sha)
    /\ pc' = "write_words"
    /\ UNCHANGED <<files, files0, fs_ops, req, n_requests, env_vars, response,
                   video_bytes, g_sha, g_words, found, extracted, transcribed, sync_outcome>>

WriteWordsJson ==
    /\ pc = "write_words"
    /\ files' = WriteFile(files, artifacts.words_rel_path,
                          WordsFile(g_sha, PathStr(req.rel_path), g_words))
    /\ fs_ops' = fs_ops \cup {"captions.mkdir", "words.write"}
    /\ pc' = "write_lines"
    /\ UNCHANGED <<files0, req, n_requests, env_vars, response, locals>>

WriteLinesTxt ==
    /\ pc = "write_lines"
    /\ files' = WriteFile(files, artifacts.lines_rel_path, LinesFile(g_lines))
    /\ fs_ops' = fs_ops \cup {"lines.write"}
    /\ pc' = "write_srt"
    /\ UNCHANGED <<files0, req, n_requests, env_vars, response, locals>>

\* mutant: the SRT file is not written before the notification
WriteSrtSkipped ==
    /\ pc = "write_srt"
    /\ pc' = "notify"
    /\ UNCHANGED <<files, files0, fs_ops, req, n_requests, env_vars, response, locals>>

WriteSrtFile ==
    /\ pc = "write_srt"
    /\ files' = WriteFile(files, artifacts.srt_rel_path, SrtFile(g_lines))
    /\ fs_ops' = fs_ops \cup {"srt.write"}
    /\ pc' = "notify"
    /\ UNCHANGED <<files0, req, n_requests, env_vars, response, locals>>

\* what the POST to media-sync may end in: a status below 400, a status of 400
\* or more, or an exception out of httpx or out of anything under it
SyncOutcomes == {"ok", "status_error", "connect_error", "timeout", "exception"}

\* mutant: only httpx.RequestError is caught
SwallowedTransportOnly(outcome) ==
    outcome \in {"ok", "status_error", "connect_error", "timeout"}

\* best_effort_media_sync returns normally: a status >= 400 is logged, and
\* `except Exception` catches whatever the POST raises
Swallowed(outcome) == outcome \in SyncOutcomes

\* best_effort_media_sync, then return artifacts
NotifyAndReturn ==
    /\ pc = "notify"
    /\ pc' = "done"
    /\ IF ~sync_configured
       THEN /\ sync_outcome' = "skipped"
            /\ response' = Success(artifacts)
       ELSE \E outcome \in SyncOutcomes :
                /\ sync_outcome' = outcome
                /\ response' = IF Swallowed(outcome) THEN Success(artifacts)
                               ELSE Failure(500, "Internal Server Error")
    /\ UNCHANGED <<files, files0, fs_ops, req, n_requests, env_vars,
                   video_bytes, g_sha, g_words, g_lines, artifacts, found, extracted, transcribed>>

\* The server process dies while generate-captions is writing: after the first
\* or after the second of the three files (dying earlier or later leaves the
\* files as a rejected or a completed request leaves them).
Crash ==
    /\ pc \in {"write_lines", "write_srt"}
    /\ pc' = "crashed"
    /\ UNCHANGED <<files, files0, fs_ops, req, n_requests, env_vars, response, locals>>

\* The video file is replaced on the shared storage.  Only ComputeSha reads
\* its bytes, so a replacement at any moment acts like one between two requests
\* or like one right after the hash was computed: those two are modelled.
ModifyVideo ==
    /\ n_edits < MaxEdits
    /\ pc \in {"idle", "done", "crashed", "extract"}
    /\ VideoDemo \in DOMAIN files
    /\ \E b \in Bytes :
        /\ files[VideoDemo] # VideoFile(b)
        /\ files' = WriteFile(files, VideoDemo, VideoFile(b))
    /\ n_edits' = n_edits + 1
    /\ UNCHANGED <<proj_exists, sync_configured, files0, fs_ops, req, n_requests, pc,
                   response, locals>>

(***************************************************************************)
(* Artifact naming: resolve_caption_paths called again and again on two    *)
(* (video path, hash) inputs.                                              *)
(***************************************************************************)
NamePaths ==
    { VideoDemo, VideoOther,
      <<"d", ".", "m", "p", "4">>,
      <<"i", "n", "g", "e", "s", "t", "/", "e", ".", "m", "p", "4">>,
      <<"i", "n", "g", "e", "s", "t", "/", "d", ".", "v", "2", ".", "m", "p", "4">> }

NameInputs == [video_rel_path : NamePaths, sha : {compute_sha256(b) : b \in Bytes}]

NmIdle ==
    /\ nm_inputs = <<>>
    /\ nm_calls = <<>>

NmInit ==
    /\ nm_inputs \in [1..2 -> NameInputs]
    /\ nm_calls = <<>>

\* one more call of resolve_caption_paths, on either input
ResolveCaptionPaths ==
    /\ Len(nm_calls) < MaxCalls
    /\ \E i \in 1..2 :
        nm_calls' = Append(nm_calls,
                           [input |-> i,
                            paths |-> resolve_caption_paths(nm_inputs[i].video_rel_path,
                                                            nm_inputs[i].sha)])
    /\ UNCHANGED nm_inputs


(***************************************************************************)
(* fetch_srt_text and the three endpoints that call it: /api/captions/srt, *)
(* /api/captions/cues and /api/captions/active.                            *)
(***************************************************************************)
HTTP_502_BAD_GATEWAY == 502

SRT_MAP_MODE == "captions_dir"

\* what the upstream media server may do with the GET: answer with a status
\* and a body, or fail in transport (httpx.RequestError and its subclasses)
UpstreamStatuses == {200, 204, 206, 301, 304, 400, 401, 403, 404, 410, 500, 503}

TransportErrors == {"ConnectError", "ConnectTimeout", "ReadTimeout", "ReadError"}

FetchBodies ==
    { <<>>,
      <<"1", "\n">> \o Stamp(0) \o Arrow \o Stamp(1000) \o <<"\n", "H">>,
      <<BOM, "1", "\r", "\n">> \o Stamp(0) \o Arrow \o Stamp(1000) \o <<"\r", "\n", "H", "\r", "\n", "\r", "\n">>
          \o Stamp(2000) \o Arrow \o Stamp(3000) \o <<"\r", "\n", "W", "\r", "\n">> }

Upstreams ==
    [kind : {"response"}, status : UpstreamStatuses, body : FetchBodies, error : {""}]
        \cup [kind : {"error"}, status : {0}, body : {<<>>}, error : TransportErrors]

FetchMediaUrls ==
    { <<"h", "t", "t", "p", ":", "/", "/", "h", "/", "i", "n", "g", "e", "s", "t", "/", "d", ".", "m", "p", "4">>,
      <<"h", "t", "t", "p", ":", "/", "/", "h", "/", "i", "n", "g", "e", "s", "t", "/", "d", ".", "t", "x", "t">> }

FetchRequests ==
    [endpoint : {"srt", "cues"}, media_url : FetchMediaUrls, t_ms : {0}]
        \cup [endpoint : {"active"}, media_url : FetchMediaUrls, t_ms : LookupTimes]

\* mutant: only server errors are failures
BelowServerError(status) == status < 500

\* httpx.Response.is_success
is_success(status) == 200 <= status /\ status <= 299

\* fetch_srt_text: the text it returns, or the status of its HTTPException
fetch_srt_text(up) ==
    IF up.kind = "error"
    THEN [status |-> HTTP_502_BAD_GATEWAY, text |-> <<>>]
    ELSE IF up.status = HTTP_404_NOT_FOUND
    THEN [status |-> HTTP_200_OK, text |-> <<>>]
    ELSE IF ~is_success(up.status)
    THEN [status |-> HTTP_502_BAD_GATEWAY, text |-> <<>>]
    ELSE [status |-> HTTP_200_OK, text |-> up.body]

NoFetchResponse == [status |-> 0, content |-> <<>>, cues |-> <<>>, active |-> NoneResult]

FtIdle ==
    /\ ft_pc = "idle"
    /\ ft_req = [endpoint |-> "none", media_url |-> <<>>, t_ms |-> 0]
    /\ upstream = [kind |-> "none", status |-> 0, body |-> <<>>, error |-> ""]
    /\ ft_text = <<>>
    /\ ft_response = NoFetchResponse

FtInit ==
    /\ ft_pc = "derive"
    /\ ft_req \in FetchRequests
    /\ upstream \in Upstreams
    /\ ft_text = <<>>
    /\ ft_response = NoFetchResponse

\* srt_url = derive_srt_url(media_url, SRT_MAP_MODE)
DeriveForFetch ==
    /\ ft_pc = "derive"
    /\ LET derived == derive_srt_url(ft_req.media_url, SRT_MAP_MODE)
       IN  IF derived.status # HTTP_200_OK
           THEN /\ ft_pc' = "done"
                /\ ft_response' = [NoFetchResponse EXCEPT !.status = derived.status]
           ELSE /\ ft_pc' = "fetch"
                /\ UNCHANGED ft_response
    /\ UNCHANGED <<ft_req, upstream, ft_text>>

\* srt_text = await fetch_srt_text(srt_url)
FetchSrtText ==
    /\ ft_pc = "fetch"
    /\ LET fetched == fetch_srt_text(upstream)
       IN  IF fetched.status # HTTP_200_OK
           THEN /\ ft_pc' = "done"
                /\ ft_response' = [NoFetchResponse EXCEPT !.status = fetched.status]
                /\ UNCHANGED ft_text
           ELSE /\ ft_pc' = "respond"
                /\ ft_text' = fetched.text
                /\ UNCHANGED ft_response
    /\ UNCHANGED <<ft_req, upstream>>

\* get_srt_for_media: the raw text
RespondSrt ==
    /\ ft_pc = "respond" /\ ft_req.endpoint = "srt"
    /\ ft_response' = [NoFetchResponse EXCEPT !.status = HTTP_200_OK, !.content = ft_text]
    /\ ft_pc' = "done"
    /\ UNCHANGED <<ft_req, upstream, ft_text>>

\* get_cues_for_media: parse_srt(srt_text)
RespondCues ==
    /\ ft_pc = "respond" /\ ft_req.endpoint = "cues"
    /\ ft_response' = [NoFetchResponse EXCEPT !.status = HTTP_200_OK, !.cues = parse_srt(ft_text)]
    /\ ft_pc' = "done"
    /\ UNCHANGED <<ft_req, upstream, ft_text>>

\* get_active_caption: the scan over parse_srt(srt_text)
RespondActive ==
    /\ ft_pc = "respond" /\ ft_req.endpoint = "active"
    /\ ft_response' = [NoFetchResponse EXCEPT !.status = HTTP_200_OK,
                                              !.active = active_caption(parse_srt(ft_text), ft_req.t_ms)]
    /\ ft_pc' = "done"
    /\ UNCHANGED <<ft_req, upstream, ft_text>>


(***************************************************************************)
(* The Resolve bridge (src/main.py): /api/export-srt writes an SRT file    *)
(* and schedules enqueue_import_job as a background task, which appends a  *)
(* job to IMPORT_QUEUE and tries the import at once.  Handlers and tasks   *)
(* are plain functions run on worker threads, so tasks of different        *)
(* requests overlap.                                                       *)
(***************************************************************************)
BridgeFileNames == { <<"d", "e", "m", "o">>, <<" ", "d", "e", "m", "o", " ">>, <<" ">> }

\* an ExportSrtRequest: what it carries (lines, only words, or neither)
BridgePayloads ==
    [content : {"lines", "words", "none"}, fileName : BridgeFileNames, enqueueImport : BOOLEAN]

\* what init_resolve and the timeline object turn out to be for this process
ResolveEnvs ==
    {"no_module", "unreachable", "no_project", "no_timeline", "raises",
     "timeline_without_import", "timeline"}

\* write_srt_file: CAPTIONS_DIR / f"{sanitized_name}.srt"
SrtTarget(file_name) ==
    <<"c", "a", "p", "t", "i", "o", "n", "s", "/">>
        \o (IF Strip(file_name) # <<>> THEN Strip(file_name) ELSE <<"c", "a", "p", "t", "i", "o", "n", "s">>)
        \o <<".", "s", "r", "t">>

\* init_resolve() succeeded
init_resolve(env) == env \in {"timeline_without_import", "timeline"}

\* mutant: an import that reports False leaves the job as it is
ImportStatusKeepsQueued(imported) == IF imported = "true" THEN "completed" ELSE "queued"

\* the status after timeline.ImportSubtitles returned or raised
ImportStatus(imported) == IF imported = "true" THEN "completed" ELSE "failed"

NoBridgeResponse == [status |-> 0, filePath |-> <<>>, job |-> "none"]

BrIdle ==
    /\ IMPORT_QUEUE = <<>>
    /\ br_files = {}
    /\ br_tasks = <<>>
    /\ br_requests = <<>>
    /\ br_response = NoBridgeResponse
    /\ resolve_env = "no_module"

BrInit ==
    /\ IMPORT_QUEUE = <<>>
    /\ br_files = {}
    /\ br_tasks = <<>>
    /\ br_requests = <<>>
    /\ br_response = NoBridgeResponse
    /\ resolve_env \in ResolveEnvs

\* export_srt
ExportSrt ==
    /\ Len(br_requests) < MaxExports
    /\ \E payload \in BridgePayloads :
        /\ br_requests' = Append(br_requests, payload)
        /\ IF payload.content = "none"
           THEN /\ br_response' = [NoBridgeResponse EXCEPT !.status = HTTP_400_BAD_REQUEST]
                /\ UNCHANGED <<br_files, br_tasks>>
           ELSE /\ br_files' = br_files \cup {SrtTarget(payload.fileName)}
                /\ br_tasks' = IF payload.enqueueImport
                               THEN Append(br_tasks, [file |-> SrtTarget(payload.fileName),
                                                      pc |-> "scheduled", job |-> 0])
                               ELSE br_tasks
                /\ br_response' = [status |-> HTTP_200_OK,
                                   filePath |-> SrtTarget(payload.fileName),
                                   job |-> IF payload.enqueueImport THEN "queued" ELSE "none"]
    /\ UNCHANGED <<IMPORT_QUEUE, resolve_env>>

\* enqueue_import_job, up to IMPORT_QUEUE.append(job)
AppendJob ==
    /\ \E i \in 1..Len(br_tasks) :
        /\ br_tasks[i].pc = "scheduled"
        /\ IMPORT_QUEUE' = Append(IMPORT_QUEUE, [filePath |-> br_tasks[i].file, status |-> "queued"])
        /\ br_tasks' = [br_tasks EXCEPT ![i].pc = "appended", ![i].job = Len(IMPORT_QUEUE) + 1]
    /\ UNCHANGED <<br_files, br_requests, br_response, resolve_env>>

\* enqueue_import_job, from init_resolve() to its return
AttemptImport ==
    /\ \E i \in 1..Len(br_tasks) :
        /\ br_tasks[i].pc = "appended"
        /\ \E imported \in {"true", "false", "raises"} :
            IMPORT_QUEUE' =
                [IMPORT_QUEUE EXCEPT ![br_tasks[i].job].status =
                    IF ~init_resolve(resolve_env) THEN "blocked"
                    ELSE IF resolve_env = "timeline_without_import" THEN "unsupported"
                    ELSE ImportStatus(imported)]
        /\ br_tasks' = [br_tasks EXCEPT ![i].pc = "returned"]
    /\ UNCHANGED <<br_files, br_requests, br_response, resolve_env>>

(***************************************************************************)
(* Two generate-captions requests for the same video, served at the same   *)
(* time.  generate_captions takes no lock and its three writes are three   *)
(* separate calls, so between any two of them the other request may write. *)
(* Within one event loop the handler never yields (it awaits nothing);     *)
(* the requests overlap when the application is served by more than one    *)
(* worker process on the same project directory.                           *)
(***************************************************************************)
Workers == {"A", "B"}

\* the video both requests name, and its hash: the file does not change
ConcVideo == VideoDemo

ConcSha == compute_sha256("b1")

\* artifacts = resolve_caption_paths(str(video_rel), sha): the same for both
ConcArtifacts == resolve_caption_paths(PathStr(ConcVideo), ConcSha)

CwIdle ==
    /\ cw_pc = [w \in Workers |-> "idle"]
    /\ cw_max_chars = [w \in Workers |-> 0]
    /\ cw_words = [w \in Workers |-> <<>>]
    /\ cw_files = <<>>
    /\ cw_status = [w \in Workers |-> 0]

\* both requests have arrived; no artifact of the video exists yet
CwInit ==
    /\ cw_pc = [w \in Workers |-> "transcribe"]
    /\ cw_max_chars \in [Workers -> MaxCharsChoices]
    /\ cw_words = [w \in Workers |-> <<>>]
    /\ cw_files = <<>>
    /\ cw_status = [w \in Workers |-> 0]

\* compute_sha256, extract_audio, transcribe_audio; 400 when there are no words
CwTranscribe(w) ==
    /\ cw_pc[w] = "transcribe"
    /\ \E ws \in Transcripts :
        /\ cw_words' = [cw_words EXCEPT ![w] = ws]
        /\ IF NoWords(ws)
           THEN /\ cw_pc' = [cw_pc EXCEPT ![w] = "done"]
                /\ cw_status' = [cw_status EXCEPT ![w] = HTTP_400_BAD_REQUEST]
           ELSE /\ cw_pc' = [cw_pc EXCEPT ![w] = "write_words"]
                /\ UNCHANGED cw_status
    /\ UNCHANGED <<cw_max_chars, cw_files>>

\* write_words_json
CwWriteWords(w) ==
    /\ cw_pc[w] = "write_words"
    /\ cw_files' = WriteFile(cw_files, ConcArtifacts.words_rel_path,
                             WordsFile(ConcSha, PathStr(ConcVideo), cw_words[w]))
    /\ cw_pc' = [cw_pc EXCEPT ![w] = "write_lines"]
    /\ UNCHANGED <<cw_max_chars, cw_words, cw_status>>

\* write_lines_txt
CwWriteLines(w) ==
    /\ cw_pc[w] = "write_lines"
    /\ cw_files' = WriteFile(cw_files, ConcArtifacts.lines_rel_path,
                             LinesFile(build_lines(cw_words[w], cw_max_chars[w])))
    /\ cw_pc' = [cw_pc EXCEPT ![w] = "write_srt"]
    /\ UNCHANGED <<cw_max_chars, cw_words, cw_status>>

\* write_srt
CwWriteSrt(w) ==
    /\ cw_pc[w] = "write_srt"
    /\ cw_files' = WriteFile(cw_files, ConcArtifacts.srt_rel_path,
                             SrtFile(build_lines(cw_words[w], cw_max_chars[w])))
    /\ cw_pc' = [cw_pc EXCEPT ![w] = "notify"]
    /\ UNCHANGED <<cw_max_chars, cw_words, cw_status>>

\* best_effort_media_sync, return artifacts
CwReturn(w) ==
    /\ cw_pc[w] = "notify"
    /\ cw_pc' = [cw_pc EXCEPT ![w] = "done"]
    /\ cw_status' = [cw_status EXCEPT ![w] = HTTP_200_OK]
    /\ UNCHANGED <<cw_max_chars, cw_words, cw_files>>

(***************************************************************************)
(* load_model and _model_cache.  load_model is reached only from           *)
(* transcribe_audio, which generate_captions calls; generate_captions is   *)
(* an `async def` that awaits nothing, so the event loop runs one handler  *)
(* from its first line to its return before it starts the next one, even   *)
(* when several requests have been accepted.                               *)
(***************************************************************************)
ModelSizes == {"small", "base"}

\* mutant: handlers run on a pool of threads, one does not wait for another
LoopAlwaysFree == TRUE

\* no handler is running on the event loop
LoopFree == lm_running = 0

LmIdle ==
    /\ model_cache = <<>>
    /\ lm_calls = <<>>
    /\ constructed = {}
    /\ lm_running = 0

\* a request is accepted: payload.model_size
LmArrive ==
    /\ Len(lm_calls) < MaxLoads
    /\ \E model_size \in ModelSizes :
        lm_calls' = Append(lm_calls, [model_size |-> model_size, pc |-> "accepted",
                                      model |-> 0, result |-> 0])
    /\ UNCHANGED <<model_cache, constructed, lm_running>>

\* the event loop starts the handler, which runs up to load_model(model_size)
LmEnter ==
    /\ LoopFree
    /\ \E i \in 1..Len(lm_calls) :
        /\ lm_calls[i].pc = "accepted"
        /\ lm_calls' = [lm_calls EXCEPT ![i].pc = "check"]
        /\ lm_running' = i
    /\ UNCHANGED <<model_cache, constructed>>

\* if model_size in _model_cache: return _model_cache[model_size]
LmCheck ==
    /\ \E i \in 1..Len(lm_calls) :
        /\ lm_calls[i].pc = "check"
        /\ IF lm_calls[i].model_size \in DOMAIN model_cache
           THEN /\ lm_calls' = [lm_calls EXCEPT ![i].pc = "returned",
                                                ![i].result = model_cache[lm_calls[i].model_size]]
                /\ lm_running' = 0
           ELSE /\ lm_calls' = [lm_calls EXCEPT ![i].pc = "construct"]
                /\ UNCHANGED lm_running
    /\ UNCHANGED <<model_cache, constructed>>

\* model = WhisperModel(model_size): a new instance, or an exception
LmConstruct ==
    /\ \E i \in 1..Len(lm_calls) :
        /\ lm_calls[i].pc = "construct"
        /\ \E ok \in BOOLEAN :
            IF ok
            THEN /\ constructed' = constructed \cup
                        {[id |-> Cardinality(constructed) + 1, model_size |-> lm_calls[i].model_size]}
                 /\ lm_calls' = [lm_calls EXCEPT ![i].pc = "store",
                                                 ![i].model = Cardinality(constructed) + 1]
                 /\ UNCHANGED lm_running
            ELSE /\ lm_calls' = [lm_calls EXCEPT ![i].pc = "raised"]
                 /\ lm_running' = 0
                 /\ UNCHANGED constructed
    /\ UNCHANGED model_cache

\* _model_cache[model_size] = model; return model
LmStore ==
    /\ \E i \in 1..Len(lm_calls) :
        /\ lm_calls[i].pc = "store"
        /\ model_cache' = [s \in DOMAIN model_cache \cup {lm_calls[i].model_size} |->
                              IF s = lm_calls[i].model_size THEN lm_calls[i].model
                              ELSE model_cache[s]]
        /\ lm_calls' = [lm_calls EXCEPT ![i].pc = "returned", ![i].result = lm_calls[i].model]
        /\ lm_running' = 0
    /\ UNCHANGED constructed

(***************************************************************************)
(* Captions lookup next to generate-captions and to edits of the video.    *)
(* One video, ingest/d.mp4; the handlers are served one at a time (neither *)
(* awaits anything), the video is replaced by others at any moment.  Both  *)
(* handlers read the bytes once, in compute_sha256, and use that hash from *)
(* then on.  Four variables record the past and steer nothing:             *)
(* lk_completed, the contents generate-captions has succeeded for;         *)
(* lk_prev, the paths of the last successful generate while the video has  *)
(* not been replaced since it was read; lk_dirty, the video was replaced   *)
(* after the current request read it; lk_regenerated, a generate has       *)
(* succeeded for the current ten-character hash prefix since the video     *)
(* last changed to content with another prefix.                            *)
(***************************************************************************)
LookupVideo == VideoDemo

NoLookupResponse == [status |-> 0, body |-> NoArtifacts]

LkIdle ==
    /\ lk_pc = "idle"
    /\ lk_kind = "none"
    /\ lk_files = <<>>
    /\ lk_bytes = "none"
    /\ lk_sha = <<>>
    /\ lk_response = NoLookupResponse
    /\ lk_ops = 0
    /\ lk_completed = {}
    /\ lk_prev = NoArtifacts
    /\ lk_dirty = FALSE
    /\ lk_regenerated = FALSE

\* the project holds the video and no captions
LkInit ==
    /\ lk_pc = "idle"
    /\ lk_kind = "none"
    /\ \E b \in Bytes : lk_files = (LookupVideo :> VideoFile(b))
    /\ lk_bytes = "none"
    /\ lk_sha = <<>>
    /\ lk_response = NoLookupResponse
    /\ lk_ops = 0
    /\ lk_completed = {}
    /\ lk_prev = NoArtifacts
    /\ lk_dirty = FALSE
    /\ lk_regenerated = FALSE

\* a request for the video arrives and passes the path checks
LkStart ==
    /\ lk_pc \in {"idle", "done"}
    /\ lk_ops < MaxOps
    /\ \E kind \in {"generate", "lookup"} : lk_kind' = kind
    /\ lk_pc' = "hash"
    /\ lk_ops' = lk_ops + 1
    /\ lk_bytes' = "none"
    /\ lk_sha' = <<>>
    /\ lk_response' = NoLookupResponse
    /\ lk_dirty' = FALSE
    /\ UNCHANGED <<lk_files, lk_completed, lk_prev, lk_regenerated>>

\* sha = compute_sha256(video_path)
LkHash ==
    /\ lk_pc = "hash"
    /\ lk_bytes' = lk_files[LookupVideo].bytes
    /\ lk_sha' = compute_sha256(lk_bytes')
    /\ lk_pc' = IF lk_kind = "lookup" THEN "find" ELSE "generate"
    /\ UNCHANGED <<lk_kind, lk_files, lk_response, lk_ops,
                   lk_completed, lk_prev, lk_dirty, lk_regenerated>>

\* get_captions_for_video: find_caption_artifacts, 404 when it finds nothing
LkFind ==
    /\ lk_pc = "find"
    /\ LET found_set == find_caption_artifacts(lk_files, PathStr(LookupVideo), lk_sha)
       IN  lk_response' = IF found_set = NoArtifacts
                          THEN [status |-> HTTP_404_NOT_FOUND, body |-> NoArtifacts]
                          ELSE [status |-> HTTP_200_OK, body |-> found_set]
    /\ lk_pc' = "done"
    /\ UNCHANGED <<lk_kind, lk_files, lk_bytes, lk_sha, lk_ops,
                   lk_completed, lk_prev, lk_dirty, lk_regenerated>>

\* generate_captions after the hash: extract_audio and transcribe_audio, which
\* may end the request with 400, then the three writes and the return
LkGenerate ==
    /\ lk_pc = "generate"
    /\ lk_pc' = "done"
    /\ \E extracted_ok \in BOOLEAN, ws \in Transcripts, max_chars \in MaxCharsChoices :
        IF ~extracted_ok \/ NoWords(ws)
        THEN /\ lk_response' = [status |-> HTTP_400_BAD_REQUEST, body |-> NoArtifacts]
             /\ UNCHANGED <<lk_files, lk_completed, lk_prev, lk_regenerated>>
        ELSE LET paths == resolve_caption_paths(PathStr(LookupVideo), lk_sha)
                 lines == build_lines(ws, max_chars)
             IN  /\ lk_files' =
                        WriteFile(
                          WriteFile(
                            WriteFile(lk_files, paths.words_rel_path,
                                      WordsFile(lk_sha, PathStr(LookupVideo), ws)),
                            paths.lines_rel_path, LinesFile(lines)),
                          paths.srt_rel_path, SrtFile(lines))
                 /\ lk_response' = [status |-> HTTP_200_OK, body |-> paths]
                 /\ lk_completed' = lk_completed \cup {lk_bytes}
                 /\ lk_prev' = IF lk_dirty THEN NoArtifacts ELSE paths
                 /\ lk_regenerated' =
                        (lk_regenerated \/ SubSeq(lk_sha, 1, 10)
                            = SubSeq(compute_sha256(lk_files[LookupVideo].bytes), 1, 10))
    /\ UNCHANGED <<lk_kind, lk_bytes, lk_sha, lk_ops, lk_dirty>>

\* the video file is replaced by someone else
LkModify ==
    /\ lk_ops < MaxOps
    /\ \E b \in Bytes :
        /\ lk_files[LookupVideo].bytes # b
        /\ lk_files' = WriteFile(lk_files, LookupVideo, VideoFile(b))
        /\ lk_regenerated' =
             (lk_regenerated /\ SubSeq(compute_sha256(b), 1, 10)
                                  = SubSeq(compute_sha256(lk_files[LookupVideo].bytes), 1, 10))
    /\ lk_ops' = lk_ops + 1
    /\ lk_prev' = NoArtifacts
    /\ lk_dirty' = (lk_pc \notin {"idle", "hash"})
    /\ UNCHANGED <<lk_pc, lk_kind, lk_bytes, lk_sha, lk_response, lk_completed>>

\* the added components at rest
ExtIdle == NmIdle /\ FtIdle /\ BrIdle /\ CwIdle /\ LmIdle /\ LkIdle

(***************************************************************************)
(* Specifications: one per component, the others at rest.                  *)
(***************************************************************************)
InitLines == BlInit /\ SrtIdle /\ PthIdle /\ UrlIdle /\ GenIdle /\ ExtIdle

NextLines == BuildLines /\ UNCHANGED <<srt_vars, pth_vars, url_vars, gen_vars, ext_vars>>

SpecLines == InitLines /\ [][NextLines]_vars

InitSrt == BlIdle /\ SrtInit /\ PthIdle /\ UrlIdle /\ GenIdle /\ ExtIdle

NextSrt ==
    \/ WriteSrt /\ UNCHANGED <<bl_vars, pth_vars, url_vars, gen_vars, ext_vars>>
    \/ ParseSrt /\ UNCHANGED <<bl_vars, pth_vars, url_vars, gen_vars, ext_vars>>
    \/ GetActiveCaption /\ UNCHANGED <<bl_vars, pth_vars, url_vars, gen_vars, ext_vars>>

SpecSrt == InitSrt /\ [][NextSrt]_vars

InitPath == BlIdle /\ SrtIdle /\ PthInit /\ UrlIdle /\ GenIdle /\ ExtIdle

NextPath == EnsureRelativePath /\ UNCHANGED <<bl_vars, srt_vars, url_vars, gen_vars, ext_vars>>

SpecPath == InitPath /\ [][NextPath]_vars

InitUrl == BlIdle /\ SrtIdle /\ PthIdle /\ UrlInit /\ GenIdle /\ ExtIdle

NextUrl == DeriveSrtUrl /\ UNCHANGED <<bl_vars, srt_vars, pth_vars, gen_vars, ext_vars>>

SpecUrl == InitUrl /\ [][NextUrl]_vars

InitGen == BlIdle /\ SrtIdle /\ PthIdle /\ UrlIdle /\ GenInit /\ ExtIdle

rest_vars == <<bl_vars, srt_vars, pth_vars, url_vars, ext_vars>>

NextGen ==
    \/ StartRequest /\ UNCHANGED rest_vars
    \/ ResolveProjectRoot /\ UNCHANGED rest_vars
    \/ ValidatePath /\ UNCHANGED rest_vars
    \/ CheckTarget /\ UNCHANGED rest_vars
    \/ ServeFile /\ UNCHANGED rest_vars
    \/ ComputeSha /\ UNCHANGED rest_vars
    \/ FindArtifacts /\ UNCHANGED rest_vars
    \/ ExtractAudio /\ UNCHANGED rest_vars
    \/ TranscribeAudio /\ UNCHANGED rest_vars
    \/ BuildArtifacts /\ UNCHANGED rest_vars
    \/ WriteWordsJson /\ UNCHANGED rest_vars
    \/ WriteLinesTxt /\ UNCHANGED rest_vars
    \/ WriteSrtFile /\ UNCHANGED rest_vars
    \/ NotifyAndReturn /\ UNCHANGED rest_vars
    \/ Crash /\ UNCHANGED rest_vars
    \/ ModifyVideo /\ UNCHANGED rest_vars

SpecGen == InitGen /\ [][NextGen]_vars

InitNames == BlIdle /\ SrtIdle /\ PthIdle /\ UrlIdle /\ GenIdle /\ NmInit /\ FtIdle /\ BrIdle /\ CwIdle /\ LmIdle /\ LkIdle

NextNames == ResolveCaptionPaths /\ UNCHANGED <<bl_vars, srt_vars, pth_vars, url_vars, gen_vars, ft_vars, br_vars, cw_vars, lm_vars, lk_vars>>

SpecNames == InitNames /\ [][NextNames]_vars

InitFetch == BlIdle /\ SrtIdle /\ PthIdle /\ UrlIdle /\ GenIdle /\ NmIdle /\ FtInit /\ BrIdle /\ CwIdle /\ LmIdle /\ LkIdle

fetch_rest == <<bl_vars, srt_vars, pth_vars, url_vars, gen_vars, nm_vars, br_vars, cw_vars, lm_vars, lk_vars>>

NextFetch ==
    \/ DeriveForFetch /\ UNCHANGED fetch_rest
    \/ FetchSrtText /\ UNCHANGED fetch_rest
    \/ RespondSrt /\ UNCHANGED fetch_rest
    \/ RespondCues /\ UNCHANGED fetch_rest
    \/ RespondActive /\ UNCHANGED fetch_rest

SpecFetch == InitFetch /\ [][NextFetch]_vars

InitBridge == BlIdle /\ SrtIdle /\ PthIdle /\ UrlIdle /\ GenIdle /\ NmIdle /\ FtIdle /\ BrInit /\ CwIdle /\ LmIdle /\ LkIdle

bridge_rest == <<bl_vars, srt_vars, pth_vars, url_vars, gen_vars, nm_vars, ft_vars, cw_vars, lm_vars, lk_vars>>

NextBridge ==
    \/ ExportSrt /\ UNCHANGED bridge_rest
    \/ AppendJob /\ UNCHANGED bridge_rest
    \/ AttemptImport /\ UNCHANGED bridge_rest

SpecBridge == InitBridge /\ [][NextBridge]_vars

InitConc == BlIdle /\ SrtIdle /\ PthIdle /\ UrlIdle /\ GenIdle /\ NmIdle /\ FtIdle /\ BrIdle /\ CwInit /\ LmIdle /\ LkIdle

conc_rest == <<bl_vars, srt_vars, pth_vars, url_vars, gen_vars, nm_vars, ft_vars, br_vars, lm_vars, lk_vars>>

NextConc ==
    \/ \E w \in Workers : CwTranscribe(w) /\ UNCHANGED conc_rest
    \/ \E w \in Workers : CwWriteWords(w) /\ UNCHANGED conc_rest
    \/ \E w \in Workers : CwWriteLines(w) /\ UNCHANGED conc_rest
    \/ \E w \in Workers : CwWriteSrt(w) /\ UNCHANGED conc_rest
    \/ \E w \in Workers : CwReturn(w) /\ UNCHANGED conc_rest

SpecConc == InitConc /\ [][NextConc]_vars

InitLoad == BlIdle /\ SrtIdle /\ PthIdle /\ UrlIdle /\ GenIdle /\ NmIdle /\ FtIdle /\ BrIdle /\ CwIdle /\ LmIdle /\ LkIdle

load_rest == <<bl_vars, srt_vars, pth_vars, url_vars, gen_vars, nm_vars, ft_vars, br_vars, cw_vars, lk_vars>>

NextLoad ==
    \/ LmArrive /\ UNCHANGED load_rest
    \/ LmEnter /\ UNCHANGED load_rest
    \/ LmCheck /\ UNCHANGED load_rest
    \/ LmConstruct /\ UNCHANGED load_rest
    \/ LmStore /\ UNCHANGED load_rest

SpecLoad == InitLoad /\ [][NextLoad]_vars

InitLookup == BlIdle /\ SrtIdle /\ PthIdle /\ UrlIdle /\ GenIdle /\ NmIdle /\ FtIdle /\ BrIdle /\ CwIdle /\ LmIdle /\ LkInit

lookup_rest == <<bl_vars, srt_vars, pth_vars, url_vars, gen_vars, nm_vars, ft_vars, br_vars, cw_vars, lm_vars>>

NextLookup ==
    \/ LkStart /\ UNCHANGED lookup_rest
    \/ LkHash /\ UNCHANGED lookup_rest
    \/ LkFind /\ UNCHANGED lookup_rest
    \/ LkGenerate /\ UNCHANGED lookup_rest
    \/ LkModify /\ UNCHANGED lookup_rest

SpecLookup == InitLookup /\ [][NextLookup]_vars

(***************************************************************************)
(* C1: every line returned by build_lines either has a text of at most     *)
(* max_chars characters or consists of exactly one input word.             *)
(***************************************************************************)
IsOneInputWord(text) ==
    \E i \in 1..Len(bl_words) : Strip(bl_words[i].text) = text

C1_CharBudget ==
    bl_pc = "built" =>
        \A k \in 1..Len(bl_lines) :
            \/ Len(bl_lines[k].text) <= bl_max_chars
            \/ IsOneInputWord(bl_lines[k].text)

\* build_lines has run and produced both an over-long single-word line and a
\* line of several words within the budget
C1_Witness ==
    /\ bl_pc = "built"
    /\ \E k \in 1..Len(bl_lines) :
           Len(bl_lines[k].text) > bl_max_chars /\ IsOneInputWord(bl_lines[k].text)
    /\ \E k \in 1..Len(bl_lines) :
           Len(bl_lines[k].text) <= bl_max_chars /\ ~IsOneInputWord(bl_lines[k].text)

(***************************************************************************)
(* C2: SRT round trip.  For lines sorted by start, with non-negative       *)
(* millisecond-exact start/end and non-empty single-line trimmed text,     *)
(* parse_srt of the text written by write_srt returns one cue per line, in *)
(* the same order, with startMs = start*1000, endMs = end*1000 and the     *)
(* same text, whatever the magnitude of the timestamps.                    *)
(***************************************************************************)
RoundTripInput(lines) ==
    /\ \A i \in 1..Len(lines) :
        /\ lines[i].start >= 0 /\ lines[i].start % 2 = 0
        /\ lines[i].end >= 0 /\ lines[i].end % 2 = 0
        /\ lines[i].text # <<>>
        /\ Strip(lines[i].text) = lines[i].text
        /\ \A k \in 1..Len(lines[i].text) : lines[i].text[k] \notin {"\n", "\r"}
    /\ \A i, j \in 1..Len(lines) : i < j => lines[i].start <= lines[j].start

CuesOfLines(lines) ==
    [i \in 1..Len(lines) |->
        [startMs |-> lines[i].start \div 2,
         endMs   |-> lines[i].end \div 2,
         text    |-> lines[i].text]]

C2_RoundTrip ==
    (srt_origin = "lines" /\ srt_pc = "cues" /\ RoundTripInput(srt_lines))
        => cues = CuesOfLines(srt_lines)

(***************************************************************************)
(* C3: the cue list returned by parse_srt is sorted ascending by startMs,  *)
(* whatever the order of the blocks, and cues of equal startMs keep their  *)
(* relative order from the input.                                          *)
(***************************************************************************)
CuesStartingAt(cs, ms) ==
    LET Starts(c) == c.startMs = ms IN SelectSeq(cs, Starts)

C3_SortedStable ==
    srt_pc = "cues" =>
        LET unsorted == UnsortedCues(srt_text)
        IN  /\ Len(cues) = Len(unsorted)
            /\ \A i, j \in 1..Len(cues) : i < j => cues[i].startMs <= cues[j].startMs
            /\ \A k \in 1..Len(unsorted) :
                   CuesStartingAt(cues, unsorted[k].startMs)
                       = CuesStartingAt(unsorted, unsorted[k].startMs)

\* a decoded document whose blocks were out of order and held two different
\* cues of equal startMs
C3_Witness ==
    /\ srt_pc = "cues"
    /\ srt_origin = "text"
    /\ LET unsorted == UnsortedCues(srt_text)
       IN  /\ \E i, j \in 1..Len(unsorted) :
                  i < j /\ unsorted[i].startMs > unsorted[j].startMs
           /\ \E i, j \in 1..Len(unsorted) :
                  /\ i < j
                  /\ unsorted[i].startMs = unsorted[j].startMs
                  /\ unsorted[i] # unsorted[j]

(***************************************************************************)
(* C4: the active-cue lookup returns the first cue, in the decoded order,  *)
(* with startMs <= t_ms <= endMs (both bounds inclusive), and the "none"   *)
(* result exactly when no cue covers t_ms.                                 *)
(***************************************************************************)
CoveringCues == {k \in 1..Len(cues) : cues[k].startMs <= t_ms /\ t_ms <= cues[k].endMs}

FirstCovering == CHOOSE k \in CoveringCues : \A j \in CoveringCues : k <= j

C4_ActiveLookup ==
    srt_pc = "active" =>
        /\ t_ms >= 0
        /\ (active = NoneResult) <=> (CoveringCues = {})
        /\ CoveringCues # {} => active = cues[FirstCovering]

\* a lookup at a time that two overlapping cues cover, on the end bound of the
\* first one
C4_Witness ==
    /\ srt_pc = "active"
    /\ Cardinality(CoveringCues) >= 2
    /\ t_ms = cues[FirstCovering].endMs
    /\ active = cues[FirstCovering]

(***************************************************************************)
(* C5: in captions_dir mode derive_srt_url applies exactly one directory   *)
(* rewrite: only the first occurrence of /ingest/originals/ (or, when that *)
(* is absent, the first occurrence of /ingest/) in the path is replaced by *)
(* /captions/, every other occurrence is left unchanged, and the trailing  *)
(* video extension is then replaced by .srt.                               *)
(***************************************************************************)
FirstOf(starts) == {i \in starts : \A j \in starts : i <= j}

\* the path with one rewrite applied: the first /ingest/originals/, or else the
\* first /ingest/ (occurrences taken in any case, as the code's patterns are)
RewrittenOnce(path) ==
    LET originals == MatchStarts(Lower(path), IngestOriginals)
        ingest == MatchStarts(Lower(path), Ingest)
    IN  IF originals # {}
        THEN ReplaceAt(path, FirstOf(originals), Len(IngestOriginals), Captions)
        ELSE ReplaceAt(path, FirstOf(ingest), Len(Ingest), Captions)

C5_SingleRewrite ==
    (url_pc = "done" /\ map_mode = "captions_dir" /\ url_result.status = HTTP_200_OK)
        => LET parsed == urlparse(media_url)
           IN  url_result.url =
                   parsed.scheme \o <<":", "/", "/">> \o parsed.netloc
                       \o SubSuffix(RewrittenOnce(parsed.path), Lower(PathSuffix(parsed.path)))

(***************************************************************************)
(* C6: ensure_relative_path rejects with a validation error every input    *)
(* that is absent or blank, is an absolute path, or contains a path        *)
(* segment equal to ".", ".." or the empty string, and accepts every other *)
(* input.                                                                  *)
(***************************************************************************)
HasRejectedSegment(p) ==
    \E k \in 1..Len(SplitOn(p, "/")) :
        SplitOn(p, "/")[k] \in {<<".">>, <<".", ".">>, <<>>}

MustBeRejected(p) ==
    \/ p = NoPath
    \/ Strip(p) = <<>>
    \/ p[1] = "/"
    \/ HasRejectedSegment(p)

C6_RelativePathValidation ==
    pth_pc = "done" =>
        (pth_result.status = HTTP_400_BAD_REQUEST <=> MustBeRejected(rel_path))

(***************************************************************************)
(* C7: validation precedes filesystem access.  Original statement: in the  *)
(* three requests, when the supplied relative path is absolute or contains *)
(* a ".." segment, the request ends with a 400 error and no filesystem     *)
(* operation is performed before the rejection, whatever the state of the  *)
(* project directory.                                                      *)
(***************************************************************************)
UnsafePath(p) ==
    \/ p[1] = "/"
    \/ \E k \in 1..Len(SplitOn(p, "/")) : SplitOn(p, "/")[k] = <<".", ".">>

ArtifactSuffixes ==
    { <<".", "w", "o", "r", "d", "s", ".", "j", "s", "o", "n">>,
      <<".", "l", "i", "n", "e", "s", ".", "t", "x", "t">>,
      <<".", "s", "r", "t">> }

ExpectedArtifacts(video_rel_path, sha) ==
    { <<"c", "a", "p", "t", "i", "o", "n", "s", "/">> \o PathStem(video_rel_path)
          \o <<"_", "_">> \o SubSeq(sha, 1, 10) \o suffix : suffix \in ArtifactSuffixes }

C8_AllOrNothing ==
    (req.kind = "lookup" /\ "artifacts.exists" \in fs_ops)
        => LET expected == ExpectedArtifacts(req.rel_path, compute_sha256(video_bytes))
           IN  /\ found # NoArtifacts <=> expected \subseteq DOMAIN files
               /\ found # NoArtifacts =>
                    {found.words_rel_path, found.lines_rel_path, found.srt_rel_path}
                        = expected
               /\ response.status =
                    IF found = NoArtifacts THEN HTTP_404_NOT_FOUND ELSE HTTP_200_OK
               /\ response.body = found

\* a lookup answered not-found while one or two of the three files were there
C8_Witness ==
    /\ req.kind = "lookup"
    /\ pc = "done"
    /\ "artifacts.exists" \in fs_ops
    /\ found = NoArtifacts
    /\ LET expected == ExpectedArtifacts(req.rel_path, compute_sha256(video_bytes))
       IN  /\ expected \cap DOMAIN files # {}
           /\ ~(expected \subseteq DOMAIN files)

(***************************************************************************)
(* C9: no partial artifacts on pipeline failure.  In a generate-captions   *)
(* run, if audio extraction fails or transcription returns an empty word   *)
(* list, the run aborts with an error and none of the three artifact files *)
(* has been created or modified; the first artifact write happens only     *)
(* after build_lines has returned.                                         *)
(***************************************************************************)
\* the caption files of a project directory, with their contents
ArtifactFiles(fs) ==
    LET captions == {q \in DOMAIN fs : fs[q].kind \in {"words", "text"}}
    IN  [q \in captions |-> fs[q]]

C9_NoPartialArtifacts ==
    /\ (req.kind = "generate" /\ (extracted = "failed" \/ transcribed = "empty"))
        => /\ pc = "done"
           /\ response.status = HTTP_400_BAD_REQUEST
           /\ fs_ops \cap WriteOps = {}
           /\ ArtifactFiles(files) = ArtifactFiles(files0)
    /\ fs_ops \cap WriteOps # {}
        => /\ pc \in {"write_lines", "write_srt", "notify", "done", "crashed"}
           /\ g_words # <<>>
           /\ g_lines = build_lines(g_words, req.max_chars)

\* a generate-captions run ended on an empty transcription in a project that
\* already held the artifacts of an earlier run
C9_Witness ==
    /\ req.kind = "generate"
    /\ pc = "done"
    /\ transcribed = "empty"
    /\ response = Failure(HTTP_400_BAD_REQUEST, "No words produced")
    /\ ExpectedArtifacts(req.rel_path, g_sha) \subseteq DOMAIN files0

(***************************************************************************)
(* C10: successful generate postcondition.  Whenever generate-captions     *)
(* returns success, all three artifact files exist at exactly the paths it *)
(* returns, captions/{stem}__{sha[:10]}.words.json, .lines.txt and .srt,   *)
(* the words file's meta.sha256 equals the SHA-256 of the video bytes read *)
(* during that request, and the words file contains every word returned by *)
(* the transcriber, in order.                                              *)
(***************************************************************************)
C10_SuccessPostcondition ==
    (req.kind = "generate" /\ pc = "done" /\ response.status = HTTP_200_OK)
        => LET base == <<"c", "a", "p", "t", "i", "o", "n", "s", "/">>
                           \o PathStem(req.rel_path) \o <<"_", "_">>
                           \o SubSeq(compute_sha256(video_bytes), 1, 10)
               body == response.body
           IN  /\ video_bytes \in Bytes
               /\ body.words_rel_path
                    = base \o <<".", "w", "o", "r", "d", "s", ".", "j", "s", "o", "n">>
               /\ body.lines_rel_path
                    = base \o <<".", "l", "i", "n", "e", "s", ".", "t", "x", "t">>
               /\ body.srt_rel_path = base \o <<".", "s", "r", "t">>
               /\ {body.words_rel_path, body.lines_rel_path, body.srt_rel_path}
                    \subseteq DOMAIN files
               /\ files[body.words_rel_path].kind = "words"
               /\ files[body.words_rel_path].meta.sha256 = compute_sha256(video_bytes)
               /\ files[body.words_rel_path].words = g_words
               /\ transcribed = "words"

\* generate-captions returned success for a two-word transcription although the
\* video was replaced after its bytes had been read
C10_Witness ==
    /\ req.kind = "generate"
    /\ pc = "done"
    /\ response.status = HTTP_200_OK
    /\ Len(g_words) = 2
    /\ files[PathStr(req.rel_path)].bytes # video_bytes
    /\ files[response.body.words_rel_path].meta.sha256 = compute_sha256(video_bytes)

(***************************************************************************)
(* C11: artifact naming is a deterministic function of (stem of the video  *)
(* path, first 10 characters of the hash) only.  resolve_caption_paths     *)
(* always yields captions/{stem}__{hash[:10]}.words.json, .lines.txt and   *)
(* .srt, the same on every call, and two inputs that share the stem and    *)
(* the 10-character prefix (different directory, extension or hash tail)   *)
(* yield the same three paths.                                             *)
(***************************************************************************)
\* the file name without its directories and without its last extension
StemOf(p) ==
    LET names == SplitOn(p, "/")
        name == names[Len(names)]
        dots == {k \in 2..Len(name) : name[k] = "."}
    IN  IF dots = {} THEN name
        ELSE SubSeq(name, 1, (CHOOSE k \in dots : \A j \in dots : j <= k) - 1)

ThreePaths(a) == <<a.words_rel_path, a.lines_rel_path, a.srt_rel_path>>

SameNameKey(x, y) ==
    /\ StemOf(x.video_rel_path) = StemOf(y.video_rel_path)
    /\ SubSeq(x.sha, 1, 10) = SubSeq(y.sha, 1, 10)

C11_DeterministicNaming ==
    \A k \in 1..Len(nm_calls) :
        LET x == nm_inputs[nm_calls[k].input]
            base == <<"c", "a", "p", "t", "i", "o", "n", "s", "/">>
                        \o StemOf(x.video_rel_path) \o <<"_", "_">> \o SubSeq(x.sha, 1, 10)
        IN  /\ ThreePaths(nm_calls[k].paths)
                = << base \o <<".", "w", "o", "r", "d", "s", ".", "j", "s", "o", "n">>,
                     base \o <<".", "l", "i", "n", "e", "s", ".", "t", "x", "t">>,
                     base \o <<".", "s", "r", "t">> >>
            /\ \A j \in 1..Len(nm_calls) :
                SameNameKey(x, nm_inputs[nm_calls[j].input])
                    => ThreePaths(nm_calls[j].paths) = ThreePaths(nm_calls[k].paths)

\* three calls: two on one input, one on an input of another directory, another
\* extension and another hash tail that shares the stem and the prefix
C11_Witness ==
    /\ Len(nm_calls) = 3
    /\ nm_calls[1].input = 1 /\ nm_calls[2].input = 2 /\ nm_calls[3].input = 1
    /\ nm_inputs[1] # nm_inputs[2]
    /\ nm_inputs[1].video_rel_path = VideoDemo
    /\ nm_inputs[2].video_rel_path = VideoOther
    /\ nm_inputs[1].sha # nm_inputs[2].sha
    /\ SameNameKey(nm_inputs[1], nm_inputs[2])
    /\ ThreePaths(nm_calls[1].paths) = ThreePaths(nm_calls[2].paths)

(***************************************************************************)
(* C12: SRT fetch outcome classes.  fetch_srt_text returns the empty       *)
(* string when the upstream answers 404 (the cues endpoint then yields an  *)
(* empty cue list and the active endpoint yields "none", not an error),    *)
(* returns the body on any success status, and raises an upstream (502)    *)
(* error, never a client (4xx) error, for every other status and for every *)
(* transport failure including a timeout.                                  *)
(***************************************************************************)
\* the request got past derive_srt_url, and fetch_srt_text has answered
Fetched == ft_pc \in {"respond", "done"} /\ ft_response.status # HTTP_400_BAD_REQUEST

C12_FetchOutcomes ==
    Fetched =>
        /\ (upstream.kind = "response" /\ upstream.status = 404)
            => /\ ft_text = <<>>
               /\ ft_pc = "done" =>
                    /\ ft_response.status = 200
                    /\ ft_response.content = <<>>
                    /\ ft_response.cues = <<>>
                    /\ ft_response.active = NoneResult
        /\ (upstream.kind = "response" /\ upstream.status \in 200..299)
            => /\ ft_text = upstream.body
               /\ ft_pc = "done" => ft_response.status = 200
        /\ (upstream.kind = "error"
                \/ (upstream.status # 404 /\ upstream.status \notin 200..299))
            => /\ ft_pc = "done"
               /\ ft_response.status = 502
               /\ ft_text = <<>>

\* the active endpoint answered "none" over an upstream 404 that carried a body
C12_Witness ==
    /\ ft_pc = "done"
    /\ ft_req.endpoint = "active"
    /\ upstream.kind = "response" /\ upstream.status = 404 /\ upstream.body # <<>>
    /\ ft_response.status = 200
    /\ ft_response.active = NoneResult

(***************************************************************************)
(* C13: notification is best-effort.  For every outcome of the media-sync  *)
(* webhook (success, status >= 400, connection error, timeout, any         *)
(* exception) generate-captions returns the same success result and leaves *)
(* the same three artifact files as when the webhook succeeds; and when    *)
(* MEDIA_SYNC_BASE_URL is not configured no request is sent at all.        *)
(***************************************************************************)
\* a request was sent to media-sync
SyncSent == sync_outcome \notin {"none", "skipped"}

C13_BestEffortNotification ==
    /\ ~sync_configured => ~SyncSent
    /\ (req.kind = "generate" /\ sync_outcome # "none")
        => /\ pc = "done"
           /\ sync_configured <=> SyncSent
           /\ response = [status |-> 200, detail |-> "", body |-> artifacts]
           /\ ThreePaths(artifacts)
                = ThreePaths(resolve_caption_paths(req.rel_path, compute_sha256(video_bytes)))
           /\ files[artifacts.words_rel_path]
                = WordsFile(compute_sha256(video_bytes), PathStr(req.rel_path), g_words)
           /\ files[artifacts.lines_rel_path] = LinesFile(g_lines)
           /\ files[artifacts.srt_rel_path] = SrtFile(g_lines)

\* generate-captions returned success although the webhook raised
C13_Witness ==
    /\ req.kind = "generate"
    /\ pc = "done"
    /\ sync_configured
    /\ sync_outcome = "exception"
    /\ response = Success(artifacts)
    /\ g_lines # <<>>

(***************************************************************************)
(* C14: the decoder drops malformed blocks without error.  A block yields  *)
(* exactly one cue when its timing line (the second line if the first line *)
(* is all digits, otherwise the first line) matches                        *)
(* HH:MM:SS,mmm --> HH:MM:SS,mmm, and yields no cue otherwise, without     *)
(* affecting the cues decoded from the other blocks.  (Around the arrow    *)
(* any run of white space, none included, is taken as matching, and text   *)
(* behind the second timestamp is not looked at.)                          *)
(***************************************************************************)
\* the blocks of the document that parse_srt was given
BlocksOf(text) ==
    IF text = <<>> \/ NormalizeSrt(text) = <<>> THEN <<>>
    ELSE KeepBlocks(SplitBlocks(NormalizeSrt(text)))

TimingLineOf(block) ==
    LET lines == SplitLines(block)
        first == Strip(lines[1])
    IN  IF first # <<>> /\ \A i \in 1..Len(first) : first[i] \in Digit
        THEN IF Len(lines) > 1 THEN Strip(lines[2]) ELSE <<>>
        ELSE first

\* where the second timestamp of a matching timing line starts (empty: no match)
SecondStampAt(line) ==
    { b \in 16..Len(line) :
        /\ IsTimestampAt(line, 1)
        /\ IsTimestampAt(line, b)
        /\ \E a \in 13..(b - 3) :
            /\ SubSeq(line, a, a + 2) = <<"-", "-", ">">>
            /\ \A k \in (13..(a - 1)) \cup ((a + 3)..(b - 1)) : line[k] \in Whitespace }

StampMs(line, i) ==
    LET d(k) == DigitValue(line[i + k])
    IN  (((d(0) * 10 + d(1)) * 60 + d(3) * 10 + d(4)) * 60 + d(6) * 10 + d(7)) * 1000
            + d(9) * 100 + d(10) * 10 + d(11)

\* the blocks that have a matching timing line
GoodBlocks(blocks) == {k \in 1..Len(blocks) : SecondStampAt(TimingLineOf(blocks[k])) # {}}

C14_MalformedBlocksDropped ==
    (srt_pc = "cues" /\ srt_origin = "text")
        => LET blocks == BlocksOf(srt_text)
               good == GoodBlocks(blocks)
           IN  \E place \in [good -> 1..Len(cues)] :
                /\ Len(cues) = Cardinality(good)
                /\ \A j, k \in good : j # k => place[j] # place[k]
                /\ \A k \in good :
                    LET line == TimingLineOf(blocks[k])
                        b == CHOOSE x \in SecondStampAt(line) : TRUE
                    IN  /\ cues[place[k]].startMs = StampMs(line, 1)
                        /\ cues[place[k]].endMs = StampMs(line, b)

\* three blocks were decoded, the one in the middle was dropped
C14_Witness ==
    /\ srt_pc = "cues" /\ srt_origin = "text"
    /\ Len(BlocksOf(srt_text)) = 3
    /\ GoodBlocks(BlocksOf(srt_text)) = {1, 3}
    /\ Len(cues) = 2

(***************************************************************************)
(* C15: decoder tolerance.  parse_srt returns the empty cue list for the   *)
(* empty string and for every whitespace-only string, and for any document *)
(* D (written with LF line endings) it returns the same cue list for D,    *)
(* for D with a leading byte-order marker, and for D with CRLF or CR line  *)
(* endings in place of LF.                                                 *)
(***************************************************************************)
IsLfDocument(text) == \A i \in 1..Len(text) : text[i] \notin {"\r", BOM}

WithLineEnding(text, ending) ==
    Concat([i \in 1..Len(text) |-> IF text[i] = "\n" THEN ending ELSE <<text[i]>>])

C15_DecoderTolerance ==
    (srt_pc = "cues" /\ srt_origin = "text")
        => /\ (\A i \in 1..Len(srt_text) : srt_text[i] \in Whitespace) => cues = <<>>
           /\ IsLfDocument(srt_text)
                => /\ parse_srt(<<BOM>> \o srt_text) = cues
                   /\ parse_srt(WithLineEnding(srt_text, <<"\r", "\n">>)) = cues
                   /\ parse_srt(WithLineEnding(srt_text, <<"\r">>)) = cues
                   /\ parse_srt(<<BOM>> \o WithLineEnding(srt_text, <<"\r", "\n">>)) = cues

\* a document of LF line endings with a two-line caption was decoded to two
\* cues, and so was the same document with CR line endings
C15_Witness ==
    /\ srt_pc = "cues" /\ srt_origin = "text"
    /\ IsLfDocument(srt_text)
    /\ Len(cues) = 2
    /\ \E k \in 1..2 : \E i \in 1..Len(cues[k].text) : cues[k].text[i] = "\n"
    /\ parse_srt(WithLineEnding(srt_text, <<"\r">>)) = cues

(***************************************************************************)
(* C16: derive_srt_url extension check and side_by_side mapping.  For      *)
(* every media URL, derive_srt_url raises a client (400) error when the    *)
(* path's extension (case-insensitive) is not one of .mp4/.mov/.mkv/.m4v/  *)
(* .avi; otherwise in side_by_side mode it returns a URL with the same     *)
(* scheme, host and directory, no query and no fragment, and the same path *)
(* with only the trailing extension replaced by .srt.                      *)
(***************************************************************************)
\* the media URL without its query and fragment
UrlBeforeQuery(url) ==
    LET cut == {i \in 1..Len(url) : url[i] \in {"?", "#"}}
    IN  IF cut = {} THEN url
        ELSE SubSeq(url, 1, (CHOOSE i \in cut : \A j \in cut : i <= j) - 1)

\* where the trailing extension of a URL starts: the last dot, when neither a
\* dot nor a slash follows it (0 when the URL does not end in an extension)
TrailingExtensionAt(url) ==
    LET dots == {i \in 1..Len(url) :
                    url[i] = "." /\ \A j \in (i + 1)..Len(url) : url[j] \notin {".", "/"}}
    IN  IF dots = {} THEN 0 ELSE CHOOSE i \in dots : TRUE

HasVideoExtension(url) ==
    /\ TrailingExtensionAt(url) # 0
    /\ Lower(SubSeq(url, TrailingExtensionAt(url), Len(url)))
         \in { <<".", "m", "p", "4">>, <<".", "m", "o", "v">>, <<".", "m", "k", "v">>,
               <<".", "m", "4", "v">>, <<".", "a", "v", "i">> }

C16_SideBySide ==
    (url_pc = "done" /\ map_mode = "side_by_side")
        => LET plain == UrlBeforeQuery(media_url)
           IN  IF ~HasVideoExtension(plain)
               THEN url_result.status = 400
               ELSE /\ url_result.status = 200
                    /\ url_result.url
                         = SubSeq(plain, 1, TrailingExtensionAt(plain) - 1)
                               \o <<".", "s", "r", "t">>

(***************************************************************************)
(* C18: cue well-formedness.  Every cue returned by parse_srt, for any     *)
(* input text, satisfies 0 <= startMs <= endMs.                            *)
(***************************************************************************)
C18_CueWellFormed ==
    srt_pc \in {"cues", "active"}
        => \A k \in 1..Len(cues) : 0 <= cues[k].startMs /\ cues[k].startMs <= cues[k].endMs

(***************************************************************************)
(* C17: import-job queue of the Resolve bridge.  Original statement: each  *)
(* export-srt request with enqueueImport=true writes {fileName}.srt and    *)
(* appends exactly one job to IMPORT_QUEUE (a request with                 *)
(* enqueueImport=false appends none); every job's status is one of queued, *)
(* blocked, unsupported, failed, completed; and once enqueue_import_job    *)
(* has returned the job has left queued for one of the four others.        *)
(***************************************************************************)
JobStatuses == {"queued", "blocked", "unsupported", "failed", "completed"}

\* no background task is waiting or running
BridgeQuiet == \A i \in 1..Len(br_tasks) : br_tasks[i].pc = "returned"

EnqueueRequests == {k \in 1..Len(br_requests) : br_requests[k].enqueueImport}

JobsWellFormed ==
    /\ \A j \in 1..Len(IMPORT_QUEUE) : IMPORT_QUEUE[j].status \in JobStatuses
    /\ \A i \in 1..Len(br_tasks) :
        br_tasks[i].pc = "returned"
            => IMPORT_QUEUE[br_tasks[i].job].status \in JobStatuses \ {"queued"}

C17_ImportQueue ==
    /\ \A k \in EnqueueRequests :
        <<"c", "a", "p", "t", "i", "o", "n", "s", "/">> \o br_requests[k].fileName
            \o <<".", "s", "r", "t">> \in br_files
    /\ BridgeQuiet => Len(IMPORT_QUEUE) = Cardinality(EnqueueRequests)
    /\ JobsWellFormed

\* C17, as the code has it.  A request that carries neither lines nor words is
\* rejected with 400 and writes and appends nothing.  Every other request writes
\* captions/{name}.srt, where name is fileName without surrounding white space,
\* or "captions" when that is empty; with enqueueImport=true it schedules one
\* run of enqueue_import_job, which appends exactly one job; with
\* enqueueImport=false none.  Jobs are never removed, a status is always one of
\* the five, a job is queued until enqueue_import_job returns and has one of
\* the four other statuses from then on, for good.
AcceptedRequests == {k \in 1..Len(br_requests) : br_requests[k].content # "none"}

WrittenName(file_name) ==
    LET inside == {i \in 1..Len(file_name) : file_name[i] \notin Whitespace}
    IN  IF inside = {} THEN <<"c", "a", "p", "t", "i", "o", "n", "s">>
        ELSE SubSeq(file_name, CHOOSE i \in inside : \A j \in inside : i <= j,
                               CHOOSE i \in inside : \A j \in inside : j <= i)

QueueMatchesRequests ==
    /\ \A k \in AcceptedRequests :
        <<"c", "a", "p", "t", "i", "o", "n", "s", "/">> \o WrittenName(br_requests[k].fileName)
            \o <<".", "s", "r", "t">> \in br_files
    /\ AcceptedRequests = {} => br_files = {}
    /\ Len(br_tasks) = Cardinality(AcceptedRequests \cap EnqueueRequests)
    /\ Len(IMPORT_QUEUE) = Cardinality({i \in 1..Len(br_tasks) : br_tasks[i].pc # "scheduled"})
    /\ \A i \in 1..Len(br_tasks) :
        br_tasks[i].pc # "scheduled"
            => /\ br_tasks[i].job \in 1..Len(IMPORT_QUEUE)
               /\ IMPORT_QUEUE[br_tasks[i].job].filePath = br_tasks[i].file
               /\ br_tasks[i].pc = "appended" => IMPORT_QUEUE[br_tasks[i].job].status = "queued"
               /\ \A h \in 1..Len(br_tasks) :
                    (h # i /\ br_tasks[h].pc # "scheduled") => br_tasks[h].job # br_tasks[i].job
    /\ JobsWellFormed

JobsKept ==
    /\ Len(IMPORT_QUEUE') >= Len(IMPORT_QUEUE)
    /\ \A j \in 1..Len(IMPORT_QUEUE) :
        /\ IMPORT_QUEUE'[j].filePath = IMPORT_QUEUE[j].filePath
        /\ IMPORT_QUEUE[j].status # "queued" => IMPORT_QUEUE'[j] = IMPORT_QUEUE[j]

C17_ImportQueueOfAcceptedRequests == [](QueueMatchesRequests) /\ [][JobsKept]_vars

\* two requests were accepted; the job of the first is completed while the job
\* of the second is still queued
C17_Witness ==
    /\ Len(br_requests) = 2 /\ AcceptedRequests = {1, 2} /\ EnqueueRequests = {1, 2}
    /\ Len(IMPORT_QUEUE) = 2
    /\ br_tasks[1].pc = "returned" /\ IMPORT_QUEUE[br_tasks[1].job].status = "completed"
    /\ br_tasks[2].pc = "appended" /\ IMPORT_QUEUE[br_tasks[2].job].status = "queued"

(***************************************************************************)
(* C19: a generate-captions run passes the stages hash-computed,           *)
(* audio-extracted, transcribed, lines-built, artifacts-written (words,    *)
(* lines, SRT), notified, done in this order, each at most once, none      *)
(* skipped or retried; the notification is attempted only after all three  *)
(* files were written, and a run that fails performs no later stage.       *)
(***************************************************************************)
\* what the current run has done so far, stage by stage
StageDone ==
    << g_sha # <<>>,
       extracted = "ok",
       transcribed = "words",
       artifacts # NoArtifacts,
       "words.write" \in fs_ops,
       "lines.write" \in fs_ops,
       "srt.write" \in fs_ops,
       sync_outcome # "none" >>

StagesPassed == Cardinality({i \in 1..Len(StageDone) : StageDone[i]})

RunFailed == pc = "done" /\ response.status \notin {0, HTTP_200_OK}

StagesInOrder ==
    req.kind = "generate" =>
        \* a stage is done only when every stage before it is
        /\ \A i \in 1..(Len(StageDone) - 1) : StageDone[i + 1] => StageDone[i]
        /\ sync_outcome # "none" => WriteOps \subseteq fs_ops
        \* the run is done exactly when the notification was attempted
        /\ (pc = "done" /\ response.status = HTTP_200_OK) <=> sync_outcome # "none"
        \* the stage a run failed at is the last one it entered
        /\ RunFailed =>
            /\ artifacts = NoArtifacts /\ fs_ops \cap WriteOps = {} /\ sync_outcome = "none"
            /\ extracted = "failed" => (StagesPassed = 1 /\ transcribed = "no")
            /\ transcribed = "empty" => StagesPassed = 2
            /\ StagesPassed <= 2

\* within one run every step performs exactly the next stage, or performs none
\* (a check before the first stage, the failure of a stage, a crash, an
\* edit of the video by someone else) and then leaves the artifacts alone
StageStep ==
    (n_requests' = n_requests /\ req.kind = "generate") =>
        \/ StagesPassed' = StagesPassed + 1 /\ ~RunFailed'
        \/ /\ StagesPassed' = StagesPassed
           /\ \A i \in 1..Len(StageDone) : StageDone'[i] = StageDone[i]
           /\ \A p \in DOMAIN files' :
                p # VideoDemo => (p \in DOMAIN files /\ files'[p] = files[p])

C19_StageOrder == [](StagesInOrder) /\ [][StageStep]_vars

\* a run that went through every stage and whose notification was sent
C19_Witness ==
    /\ req.kind = "generate" /\ pc = "done" /\ response.status = HTTP_200_OK
    /\ StagesPassed = Len(StageDone)
    /\ sync_outcome = "ok"

(***************************************************************************)
(* C20: when two generate-captions requests for the same unchanged video   *)
(* run at the same time, then under every interleaving of their file       *)
(* writes, once both have finished, the three artifact files all hold the  *)
(* output of one and the same request; a mixed artifact set exists only    *)
(* while a request is still writing.                                       *)
(***************************************************************************)
\* the three files as request w writes them
OutputOf(w) ==
    LET lines == build_lines(cw_words[w], cw_max_chars[w])
    IN  [q \in {ConcArtifacts.words_rel_path, ConcArtifacts.lines_rel_path, ConcArtifacts.srt_rel_path} |->
            IF q = ConcArtifacts.words_rel_path
            THEN WordsFile(ConcSha, PathStr(ConcVideo), cw_words[w])
            ELSE IF q = ConcArtifacts.lines_rel_path THEN LinesFile(lines)
            ELSE SrtFile(lines)]

BothFinished == \A w \in Workers : cw_pc[w] = "done"

C20_ConcurrentRequestsConverge ==
    (BothFinished /\ \E w \in Workers : cw_status[w] = HTTP_200_OK)
        => \E w \in Workers : cw_status[w] = HTTP_200_OK /\ cw_files = OutputOf(w)

(***************************************************************************)
(* C23: build_lines is the greedy order-preserving partition.  The input   *)
(* words whose trimmed text is non-empty are split, in input order, none   *)
(* dropped, duplicated or broken, into consecutive non-empty groups; a     *)
(* line's text is its group's trimmed words joined by single spaces, its   *)
(* start the first word's start, its end the last word's end; and a line   *)
(* is closed exactly where appending the next word would make the joined   *)
(* text longer than max_chars.                                             *)
(***************************************************************************)
\* the positions of the input words that have text, in input order
ShownPositions ==
    {i \in 1..Len(bl_words) :
        \E k \in 1..Len(bl_words[i].text) : bl_words[i].text[k] \notin Whitespace}

\* the n-th of them
ShownWord(n) ==
    bl_words[CHOOSE i \in ShownPositions :
                Cardinality({j \in ShownPositions : j <= i}) = n]

\* the trimmed texts of the shown words lo..hi with one space between neighbours
RECURSIVE SpaceJoined(_, _)
SpaceJoined(lo, hi) ==
    IF lo = hi THEN Strip(ShownWord(lo).text)
    ELSE SpaceJoined(lo, hi - 1) \o <<" ">> \o Strip(ShownWord(hi).text)

\* where the group that holds shown word i begins, for the cuts `after`
GroupStart(after, i) ==
    CHOOSE lo \in 1..i :
        /\ lo = 1 \/ (lo - 1) \in after
        /\ \A j \in lo..(i - 1) : j \notin after

\* the k-th group, for the cuts `after`: its first and its last shown word
GroupBounds(after, n, k) ==
    LET ends == after \cup {n}
        hi == CHOOSE e \in ends : Cardinality({x \in ends : x <= e}) = k
    IN  [lo |-> GroupStart(after, hi), hi |-> hi]

GreedyPartition(after, n) ==
    \* a cut lies exactly where one more word would exceed the budget
    /\ \A i \in 1..(n - 1) :
        i \in after <=> Len(SpaceJoined(GroupStart(after, i), i + 1)) > bl_max_chars
    \* one line per group, in order
    /\ Len(bl_lines) = Cardinality(after) + 1
    /\ \A k \in 1..Len(bl_lines) :
        LET g == GroupBounds(after, n, k)
        IN  /\ bl_lines[k].text = SpaceJoined(g.lo, g.hi)
            /\ bl_lines[k].start = ShownWord(g.lo).start
            /\ bl_lines[k].end = ShownWord(g.hi).end

C23_GreedyPartition ==
    bl_pc = "built" =>
        LET n == Cardinality(ShownPositions)
        IN  IF n = 0 THEN bl_lines = <<>>
            ELSE \E after \in SUBSET (1..(n - 1)) : GreedyPartition(after, n)

\* three words with text gave a line of two words within the budget and a
\* line of one word beyond it
C23_Witness ==
    /\ bl_pc = "built"
    /\ Cardinality(ShownPositions) = 3
    /\ Len(bl_lines) = 2
    /\ \E k \in 1..2 : Len(bl_lines[k].text) > bl_max_chars
    /\ \E k \in 1..2 :
        /\ Len(bl_lines[k].text) <= bl_max_chars
        /\ ~\E i \in ShownPositions :
                bl_words[i].start = bl_lines[k].start /\ bl_words[i].end = bl_lines[k].end

(***************************************************************************)
(* C25: whenever generate-captions returns success, the lines file holds   *)
(* at least one line and the SRT file at least one cue, each with          *)
(* non-empty text; a transcription without displayable text (no words, or  *)
(* only words whose trimmed text is empty) ends in a failure.              *)
(***************************************************************************)
GenerateSucceeded ==
    req.kind = "generate" /\ pc = "done" /\ response.status = HTTP_200_OK

\* the transcript has a word with something to show
Displayable(ws) ==
    \E i \in 1..Len(ws) : \E k \in 1..Len(ws[i].text) : ws[i].text[k] \notin Whitespace

C25_NoEmptyCaptions ==
    /\ GenerateSucceeded =>
        LET lines_txt == files[response.body.lines_rel_path].text
            srt_cues == parse_srt(files[response.body.srt_rel_path].text)
        IN  /\ \E k \in 1..Len(lines_txt) : lines_txt[k] \notin Whitespace
            /\ srt_cues # <<>>
            /\ \A k \in 1..Len(srt_cues) : srt_cues[k].text # <<>>
    /\ (req.kind = "generate" /\ pc = "done" /\ transcribed # "no" /\ ~Displayable(g_words))
        => response.status = HTTP_400_BAD_REQUEST

(***************************************************************************)
(* C22: over any sequence of load_model calls, calls of requests served    *)
(* at the same time included, at most one model instance is ever           *)
(* constructed for each model-size identifier, and every call after the    *)
(* first for that identifier returns that same instance.                   *)
(***************************************************************************)
InstancesOf(model_size) == {inst \in constructed : inst.model_size = model_size}

ReturnedCalls == {i \in 1..Len(lm_calls) : lm_calls[i].pc = "returned"}

C22_SingleInstancePerKey ==
    /\ \A s \in ModelSizes : Cardinality(InstancesOf(s)) <= 1
    /\ \A i \in ReturnedCalls :
        \E inst \in InstancesOf(lm_calls[i].model_size) : lm_calls[i].result = inst.id
    /\ \A i, j \in ReturnedCalls :
        lm_calls[i].model_size = lm_calls[j].model_size => lm_calls[i].result = lm_calls[j].result

\* three calls have returned: two of them name the same size and got the same
\* instance, the third names the other size and got another one
C22_Witness ==
    /\ Len(lm_calls) = 3
    /\ ReturnedCalls = {1, 2, 3}
    /\ lm_calls[1].model_size = lm_calls[2].model_size
    /\ lm_calls[1].result = lm_calls[2].result
    /\ lm_calls[3].model_size # lm_calls[1].model_size
    /\ Cardinality(constructed) = 2

(***************************************************************************)
(* C21: generate is idempotent at the file level.  Running                 *)
(* generate-captions again on a video whose bytes are unchanged, with the  *)
(* same transcriber output and the same max_chars (a retry after a run     *)
(* that crashed after writing only some of the files included), writes the *)
(* same three paths, creates no additional artifact file, and leaves the   *)
(* three files with the same contents as a single successful run.          *)
(***************************************************************************)
\* the three files as one successful run on an empty captions directory
\* leaves them
SingleRun(video_rel_path, sha, words, max_chars) ==
    LET base == <<"c", "a", "p", "t", "i", "o", "n", "s", "/">>
                    \o PathStem(video_rel_path) \o <<"_", "_">> \o SubSeq(sha, 1, 10)
        lines == build_lines(words, max_chars)
    IN  (base \o <<".", "w", "o", "r", "d", "s", ".", "j", "s", "o", "n">>
            :> WordsFile(sha, PathStr(video_rel_path), words))
        @@ (base \o <<".", "l", "i", "n", "e", "s", ".", "t", "x", "t">> :> LinesFile(lines))
        @@ (base \o <<".", "s", "r", "t">> :> SrtFile(lines))

ThisRunAlone ==
    SingleRun(req.rel_path, compute_sha256(video_bytes), g_words, req.max_chars)

\* the directory already held what this run writes: an earlier run had the
\* same video bytes, transcriber output and max_chars
RanBefore ==
    \A q \in DOMAIN ThisRunAlone : q \in DOMAIN files0 /\ files0[q] = ThisRunAlone[q]

C21_GenerateIdempotent ==
    GenerateSucceeded =>
        LET run == ThisRunAlone
            before == ArtifactFiles(files0)
            after == ArtifactFiles(files)
        IN  /\ \A q \in DOMAIN run : q \in DOMAIN files /\ files[q] = run[q]
            /\ {response.body.words_rel_path, response.body.lines_rel_path,
                response.body.srt_rel_path} = DOMAIN run
            /\ DOMAIN after = DOMAIN before \cup DOMAIN run
            /\ \A q \in DOMAIN before \ DOMAIN run : files[q] = files0[q]
            /\ (\A q \in DOMAIN run : q \in DOMAIN files0 /\ files0[q] = run[q])
                    => after = before

\* the second of two successful runs with the same bytes, words and max_chars
C21_Witness ==
    /\ GenerateSucceeded
    /\ n_requests = 2
    /\ files[PathStr(req.rel_path)].bytes = video_bytes
    /\ RanBefore

(***************************************************************************)
(* C24: lookup reflects the current file bytes.  Original statement: after *)
(* any sequence of generate requests and modifications of a video, a       *)
(* captions lookup returns an artifact set only if a generate request has  *)
(* completed for content with the same stem and the same ten-character     *)
(* hash prefix as the bytes of the file; directly after a successful       *)
(* generate with the file unchanged it returns the three paths generate    *)
(* returned; and after the bytes change to content with a different hash   *)
(* prefix it reports not-found until captions are generated again.         *)
(***************************************************************************)
\* the first ten hexadecimal characters of the SHA-256 of the contents
HexPrefix(bytes) ==
    IF bytes \in {"b1", "b2"} THEN <<"0", "1", "2", "3", "4", "5", "6", "7", "8", "9">>
    ELSE <<"f", "0", "0", "d", "f", "0", "0", "d", "f", "0">>

LookupAnswered == lk_kind = "lookup" /\ lk_pc = "done"

\* generate-captions has succeeded for content with the prefix of these bytes
GeneratedFor(bytes) == \E b \in lk_completed : HexPrefix(b) = HexPrefix(bytes)

FoundOnlyIfGenerated ==
    (LookupAnswered /\ lk_response.status = HTTP_200_OK) => GeneratedFor(lk_bytes)

SamePathsAfterGenerate ==
    (LookupAnswered /\ ~lk_dirty /\ lk_prev # NoArtifacts)
        => /\ lk_response.status = HTTP_200_OK
           /\ lk_response.body.words_rel_path = lk_prev.words_rel_path
           /\ lk_response.body.lines_rel_path = lk_prev.lines_rel_path
           /\ lk_response.body.srt_rel_path = lk_prev.srt_rel_path

C24_LookupReflectsCurrentBytes ==
    /\ FoundOnlyIfGenerated
    /\ SamePathsAfterGenerate
    /\ (LookupAnswered /\ ~lk_dirty /\ ~lk_regenerated)
        => lk_response.status = HTTP_404_NOT_FOUND

\* C24, as the code has it.  The first two parts stand.  After the bytes change
\* to content with a different hash prefix, lookup reports not-found exactly
\* as long as no generate request has ever succeeded for content with that stem
\* and prefix: captions generated for such content before the change (the file
\* went back to an earlier version) are found at once, without a new generate.
C24_LookupReflectsGeneratedContent ==
    /\ FoundOnlyIfGenerated
    /\ SamePathsAfterGenerate
    /\ LookupAnswered =>
        /\ lk_response.status \in {HTTP_200_OK, HTTP_404_NOT_FOUND}
        /\ lk_response.status = HTTP_404_NOT_FOUND <=> ~GeneratedFor(lk_bytes)
        /\ lk_response.status = HTTP_200_OK =>
            /\ lk_response.body.sha256 = lk_sha
            /\ SubSeq(lk_sha, 1, 10) = HexPrefix(lk_bytes)

\* captions exist for the earlier content, the video now has content with
\* another prefix that was never generated for, and the lookup said not-found
C24_Witness ==
    /\ LookupAnswered
    /\ ~lk_dirty
    /\ lk_response.status = HTTP_404_NOT_FOUND
    /\ lk_completed # {}
    /\ ~GeneratedFor(lk_files[LookupVideo].bytes)

=============================================================================
